---- MODULE Spec2Model ----
(***************************************************************************)
(* Handle-lifetime model of the mimerrust driver: one Connection, the      *)
(* Statements prepared from it, their Cursors and Rows, and the threads    *)
(* of the application that use and drop them.                              *)
(*                                                                         *)
(* Arc/Weak reference counts are explicit (connStrong, stmt[s].strong): an *)
(* inner object is destroyed by the thread that releases its last strong   *)
(* reference, at the point where it releases it.  The parking_lot mutexes  *)
(* that threads can contend for are explicit (stmt[s].lock, cdLock).  The  *)
(* native library is modelled by what a call does to a handle: a statement *)
(* handle is begun, used or ended; the session handle is ended.            *)
(*                                                                         *)
(* Granularity.  A step is as large as it can be without hiding an         *)
(* interleaving: taking a guard that is free, a native call together with  *)
(* the drop of the guard and of the transient Arc that follow it.  The     *)
(* reads of a strong count (check_connection, upgrade) and the native      *)
(* end calls are always steps of their own.                                *)
(***************************************************************************)
EXTENDS Integers, FiniteSets, Sequences, TLC

(* ---- bounds ---- *)
MaxThreads == 2
MaxStmts == 2
MaxParams == 2      \* parameters of the Statement used for batches
MaxCalls == 5       \* calls made on that Statement
MaxTx == 2          \* Transactions begun on the Connection
MaxWork == 3        \* statements executed on the Connection
MaxRows == 5        \* rows of the result set a Cursor is opened on
MaxLocal == 210     \* codes below -26000 that get_error is asked about
MaxStatus == 12     \* largest positive status a native call answers
MaxConns == 2       \* Connections made by Connection::open that exist at once

Threads == 1..MaxThreads
Stmts == 1..MaxStmts

(* ---- status codes ---- *)
MIMER_SUCCESS == 0
WrongParameterCount == -26006
MIMER_NO_DATA == 100
MIMER_SQL_NULL_VALUE == -24200  \* negative; compared for equality only
ConversionError == -26200
LocalFirst == -26999   \* the driver's own codes
LocalLast == -26000
InvalidSession == -26002
RustError == -26999
PositiveStatus == 1     \* a positive status other than MIMER_NO_DATA
TransactionOpen == -14011
ConnectionDropped == -26003
StatementDropped == -26004
\* a representative negative status of the native library
NativeError == -24101

(* ---- operations of the public API ---- *)
StmtNativeOps == {"execute", "execute_bind", "bind", "add_batch", "column_count",
                  "get_column_name", "get_parameter_name", "get_parameter_mode",
                  "set_array_size"}
StmtOps == StmtNativeOps \cup {"num_params", "open_cursor"}
FetchOps == {"advance", "scroll", "current_row"}
CursorOps == FetchOps \cup {"get_row_size", "drop_cursor"}
RowOps == {"get", "get_type", "is_null"}
\* Statement::get_error and Connection::get_error, with a status code of the
\* native library
ErrorOps == {"get_error", "conn_get_error"}
\* operations on the Connection that use the session handle
SessOps == {"execute_statement", "conn_get_error"}
\* operations that hold a transient Arc<InnerStatement> while they run
UpgradingOps == CursorOps \cup RowOps \cup {"open_cursor"}
\* the operations threads run against each other in the interleaving
\* specification; the serial specification runs every operation
ConcOps == {"prepare", "drop_statement", "drop_connection",
            "execute", "execute_bind", "bind", "open_cursor", "advance", "scroll",
            "get_error", "execute_statement", "conn_get_error", "open"}

\* the operations of the interleavings in which the guards are contended:
\* prepare, execute, execute_bind, add_batch, cursor fetches, Row reads, the
\* three drops, and the operations that use the session and begin a session
GuardOps == {"prepare", "drop_statement", "drop_connection", "drop_cursor",
             "execute", "execute_bind", "add_batch", "open_cursor", "advance",
             "scroll", "get", "execute_statement", "open"}

VARIABLES
    serial,     \* operations run one after another (fixed by the specification)
    conc,       \* the operations that threads run concurrently (fixed likewise)
    batch,      \* a Statement used for batches, and what its native handle holds
    tx,         \* the Transactions of a Connection and the session's transaction
    cursor,     \* a Cursor and the position of the native cursor it fetches from
    fetched,    \* a column of the current Row and the latest read of it
    report,     \* a handle and the latest MimerError made for it
    answer,     \* the latest native status and what the calling method made of it
    opening,    \* Connection::open calls and the Connections they made
    lob,        \* a large object being bound or decoded, chunk by chunk
    thr,        \* thr[t]: what thread t is executing
    connHeld,   \* the application still owns the Connection
    connStrong, \* strong count of Arc<InnerConnection>
    sessEnded,  \* MimerEndSessionHard has been issued
    registry,   \* InnerConnection.statements: the registered statements
    cdLock,     \* connect_disconnect_mtx: 0 or the holding thread
    stmt,       \* stmt[s]: Statement s and its InnerStatement
    leaked,     \* a native statement handle was begun and can no longer be ended
    tdTodo,     \* registry entries the teardown loop has still to visit
    tdCur,      \* statement the teardown loop has upgraded, or 0
    lateEnd,    \* MimerEndStatement was issued after MimerEndSessionHard
    sessLock,   \* InnerConnection.session guard: 0 or the holding thread
    regLock     \* InnerConnection.statements lock: 0 or the holding thread

vars == <<serial, conc, batch, tx, cursor, fetched, report, answer, opening, lob, lob, thr, connHeld, connStrong, sessEnded, registry, cdLock, stmt,
          leaked, tdTodo, tdCur, lateEnd, sessLock, regLock>>

Idle == [pc |-> "idle", op |-> "none", s |-> 0, res |-> 0,
         native |-> FALSE, stale |-> FALSE, late |-> FALSE]

NoStmt == [st |-> "new", strong |-> 0, ended |-> 0,
           cursor |-> FALSE, row |-> FALSE, lock |-> 0]

\* Cursor::open on a statement prepared with `mode` whose result set has n
\* rows: scroll_option: ScrollOption::NEXT, row: None, and the native cursor
\* before the first row (pos 0; n + 1 is after the last row).  last is the
\* latest call on the Cursor and the native status it received.
OpenedCursor(mode, n) ==
    [mode |-> mode, rows |-> n, scroll_option |-> "NEXT", row |-> FALSE, pos |-> 0,
     last |-> [op |-> "open", idx |-> 0, native |-> "none", fault |-> FALSE,
               status |-> MIMER_SUCCESS, res |-> "ok"]]

\* A column of the Row a Cursor shows: its native type, whether it holds SQL
\* NULL, its value, and the latest read made of it.  seen is what the column
\* held in the row at which the Row used for the reads was produced.
FetchedColumn(kind, null, value) ==
    [kind |-> kind, null |-> null, value |-> value,
     seen |-> [null |-> null, value |-> value],
     last |-> [op |-> "none", T |-> "none", res |-> "none", code |-> MIMER_SUCCESS,
               value |-> 0]]

\* A Connection or Statement handle whose parent Connection is alive and for
\* which no MimerError has been made yet.  guards counts the acquisitions of
\* the handle's guard and native the native calls of the latest get_error.
NoReport(kind) ==
    [kind |-> kind, alive |-> TRUE,
     last |-> [op |-> "none", given |-> 0, error_code |-> 0, error_message |-> "",
               guards |-> 0, native |-> 0]]

\* No native call has returned yet.
NoAnswer == [call |-> "none", rc |-> MIMER_SUCCESS, res |-> "none", code |-> MIMER_SUCCESS]

\* No Connection::open has been called: the connect/disconnect lock is free
\* and no Connection exists.
NotOpening ==
    [pc |-> "idle", lock |-> FALSE, rc |-> MIMER_SUCCESS, sess |-> "null",
     connections |-> 0,
     last |-> [res |-> "none", code |-> MIMER_SUCCESS]]

\* No large object has been bound or decoded yet.  input is the argument of
\* the operation, value the bytes of the object, sent the chunks handed to the native calls in order, val the
\* buffer a decode fills, res the status the operation returned.
NoLob ==
    [op |-> "none", pc |-> "done", input |-> 0, value |-> <<>>, lefttosend |-> 0, pos |-> 0,
     stepback |-> 0, k |-> 0, left_to_return |-> 0, blob_idx |-> 0,
     sent |-> <<>>, val |-> <<>>, res |-> MIMER_SUCCESS]

\* a Connection on which no Transaction has been begun.  held counts the
\* Transaction objects alive, open is the session's native transaction,
\* pending the work done in it, durable the work that is committed, inTx
\* the work done while the latest Transaction was held, log the
\* MimerEndTransaction calls made for it, last the latest call of the
\* application.
NoTransaction ==
    [held |-> 0, open |-> FALSE, pending |-> {}, durable |-> {}, inTx |-> {},
     log |-> <<>>, begun |-> 0, last |-> [op |-> "none", res |-> 0]]

\* Statement::new: a Statement with n parameters, batch_bool: false.  row is
\* the parameter row of the native handle (0: not set), queue the rows that
\* MimerAddBatch has added to the batch, submitted the rows of the last
\* MimerExecute, log the native calls made on the handle; hist records the
\* calls of the application, last the latest of them, given the parameter
\* lists of the successful add_batch calls of the current batch.
FreshStatement(n) ==
    [num_parameters |-> n, batch_bool |-> FALSE,
     row |-> [i \in 1..n |-> 0], queue |-> <<>>, submitted |-> <<>>, log |-> <<>>,
     hist |-> <<>>, given |-> <<>>,
     last |-> [op |-> "none", params |-> <<>>, res |-> 0]]

InitWith(mode, ops) ==
    /\ serial = mode
    /\ conc = ops
    /\ thr = [t \in Threads |-> Idle]
    /\ connHeld = TRUE
    /\ connStrong = 1
    /\ sessEnded = FALSE
    /\ registry = {}
    /\ cdLock = 0
    /\ stmt = [s \in Stmts |-> NoStmt]
    /\ leaked = FALSE
    /\ tdTodo = {}
    /\ tdCur = 0
    /\ lateEnd = FALSE
    /\ sessLock = 0
    /\ regLock = 0

Init == InitWith(FALSE, ConcOps) /\ batch = FreshStatement(0) /\ tx = NoTransaction
    /\ cursor = OpenedCursor("Forward", 0)
    /\ fetched = FetchedColumn("small_int", FALSE, 0)
    /\ report = NoReport("Connection")
    /\ answer = NoAnswer
    /\ opening = NotOpening
    /\ lob = NoLob

SeqInit == InitWith(TRUE, ConcOps) /\ batch = FreshStatement(0) /\ tx = NoTransaction
    /\ cursor = OpenedCursor("Forward", 0)
    /\ fetched = FetchedColumn("small_int", FALSE, 0)
    /\ report = NoReport("Connection")
    /\ answer = NoAnswer
    /\ opening = NotOpening
    /\ lob = NoLob

\* threads that prepare, execute, batch, fetch, read rows and drop their objects
GuardInit == InitWith(FALSE, GuardOps) /\ batch = FreshStatement(0) /\ tx = NoTransaction
    /\ cursor = OpenedCursor("Forward", 0)
    /\ fetched = FetchedColumn("small_int", FALSE, 0)
    /\ report = NoReport("Connection")
    /\ answer = NoAnswer
    /\ opening = NotOpening
    /\ lob = NoLob

(* ---- helpers ---- *)
Panics == {"panic_unwrap", "panic_end"}

InFlight(t) == thr[t].pc \notin ({"idle", "ret"} \cup Panics)

\* some thread is inside an operation of class ops on statement s
Borrowed(s, ops) == \E u \in Threads : InFlight(u) /\ thr[u].s = s /\ thr[u].op \in ops

\* some thread is inside an operation that borrows the Connection (&self)
SessionInUse == \E u \in Threads : InFlight(u) /\ thr[u].op \in SessOps

\* thread t may start operation op: in the serial mode the program is one
\* thread that runs its operations one after another
MayStart(t, op) ==
    /\ thr[t].pc = "idle"
    /\ IF serial THEN t = 1 /\ \A u \in Threads : thr[u].pc = "idle" ELSE op \in conc

Begin(op, s, pc) ==
    [pc |-> pc, op |-> op, s |-> s, res |-> 0, native |-> FALSE, stale |-> FALSE,
     late |-> (connStrong = 0)]

\* faulty variant: the liveness check always passes
check_connection_always_ok(strong) == MIMER_SUCCESS

\* InnerStatement::check_connection
check_connection(strong) == IF strong = 0 THEN ConnectionDropped ELSE MIMER_SUCCESS

\* InnerConnection::push_statement
push_statement(reg, s) == reg \cup {s}

\* faulty variant: a dropped statement stays registered
remove_statement_keeps(reg, s) == reg

\* InnerConnection::remove_statement
remove_statement(reg, s) == reg \ {s}

\* faulty variant: the teardown visits no statement
teardown_entries_none(reg) == {}

\* self.statements.lock().values_mut(): the entries InnerConnection::drop visits
teardown_entries(reg) == reg

\* the handle is dangling: ended explicitly, or its session has been ended
Stale(s) == stmt[s].ended > 0 \/ sessEnded

\* where a thread goes after dropping an Arc<InnerStatement> that left
\* `strong` references behind: the last reference runs InnerStatement::drop
AfterRelease(strong) == IF strong = 0 THEN "sd_check" ELSE "ret"

(* ---- Connection::prepare ---- *)
\* InnerStatement::new with `strong` references to the InnerConnection:
\* upgrade().ok_or(-26003)? comes before MimerBeginStatement8; a negative
\* status of MimerBeginStatement8 or of MimerParameterCount is returned and
\* no InnerStatement is made, in the second case with the native statement
\* already begun.
InnerStatement_new(strong, status) ==
    IF strong = 0
    THEN [res |-> ConnectionDropped, native |-> FALSE, made |-> FALSE, begun |-> FALSE]
    ELSE IF status = "success"
    THEN [res |-> MIMER_SUCCESS, native |-> TRUE, made |-> TRUE, begun |-> TRUE]
    ELSE [res |-> NativeError, native |-> TRUE, made |-> FALSE,
          begun |-> (status = "count_error")]

\* faulty variant: the statement is registered whatever Statement::new returned
registered_after_always(reg, s, made) == push_statement(reg, s)

\* Connection::prepare: `?` on Statement::new, then push_statement
registered_after(reg, s, made) == IF made THEN push_statement(reg, s) ELSE reg

\* Statement::new, InnerStatement::new and push_statement; the Connection is
\* borrowed mutably, so nothing else touches the session meanwhile
Prepare(t, s) ==
    /\ MayStart(t, "prepare")
    /\ connHeld
    /\ ~SessionInUse
    /\ sessLock = 0 /\ regLock = 0
    /\ stmt[s].st = "new"
    /\ \E status \in {"success", "begin_error", "count_error"} :
         LET new == InnerStatement_new(connStrong, status)
         IN /\ thr' = [thr EXCEPT ![t] = [Begin("prepare", s, "ret") EXCEPT
                                            !.res = new.res, !.native = new.native]]
            /\ stmt' = IF new.made
                       THEN [stmt EXCEPT ![s] = [NoStmt EXCEPT !.st = "held", !.strong = 1]]
                       ELSE stmt
            /\ registry' = registered_after(registry, s, new.made)
            /\ leaked' = (leaked \/ (new.begun /\ ~new.made))
    /\ UNCHANGED <<serial, conc, batch, tx, cursor, fetched, report, answer, opening, lob, sessLock, regLock, connHeld, connStrong, sessEnded, cdLock, tdTodo, tdCur, lateEnd>>

(* ---- operations that use the statement handle ---- *)

\* faulty variant: the fetch operations skip check_connection
Checked_not_fetches(op) == op \notin FetchOps \cup {"get_row_size"}

\* faulty variant: the Row accessors skip check_connection
Checked_not_rows(op) == op \notin RowOps \cup {"get_row_size"}

\* faulty variant: close_cursor skips check_connection
Checked_not_close(op) == op \notin {"drop_cursor", "get_row_size"}

\* operations that call check_connection after taking the handle guard
Checked(op) == op # "get_row_size"

\* impl Drop for Cursor: the results of close_cursor that the drop does not
\* accept make it panic
CursorDropPanics(res) == res \notin {MIMER_SUCCESS, ConnectionDropped, StatementDropped}

\* faulty variant: the Cursor keeps the Arc it was opened with
Transient_cursor_owns(op) == op \in UpgradingOps \ {"open_cursor"}

\* the operation drops the Arc<InnerStatement> it holds when it returns
\* (Cursor::open keeps only Arc::downgrade of the one it was given)
Transient(op) == op \in UpgradingOps

\* faulty variant: one guard shared by all the statements of the Connection
guard_free_shared(s) == \A s2 \in Stmts : stmt[s2].lock = 0

\* the guard of InnerStatement::get_statement_handle: self.statement.lock(),
\* a Mutex of the InnerStatement itself
guard_free(s) == stmt[s].lock = 0

\* Statement::add_batch takes &mut self: it runs while no other operation
\* of the Statement itself does (Cursors and Rows do not borrow the Statement)
MutOps == {"add_batch"}

\* Statement::execute .. set_array_size: Statement::get_statement_handle takes
\* the guard, then (next step) calls check_connection.  The caller borrows the
\* Statement, so it is not dropped while the call runs.  Statement::open_cursor
\* passes a clone of the Arc<InnerStatement> to Cursor::open, which does the same.
StartStmtOp(t, s, op) ==
    /\ MayStart(t, op)
    /\ stmt[s].st = "held"
    /\ ~Borrowed(s, MutOps)
    /\ (op \in MutOps => ~Borrowed(s, StmtOps \cup ErrorOps))
    /\ guard_free(s)
    /\ thr' = [thr EXCEPT ![t] = Begin(op, s, "check")]
    /\ stmt' = [stmt EXCEPT ![s].lock = t,
                            ![s].strong = @ + (IF op = "open_cursor" THEN 1 ELSE 0)]
    /\ UNCHANGED <<serial, conc, batch, tx, cursor, fetched, report, answer, opening, lob, sessLock, regLock, connHeld, connStrong, sessEnded, registry, cdLock, leaked,
                   tdTodo, tdCur, lateEnd>>

\* the application holds the object the operation is called on, and no
\* other thread is using a Cursor that is being dropped
Holds(s, op) ==
    IF op \in RowOps THEN stmt[s].row
    ELSE /\ stmt[s].cursor
         /\ ~Borrowed(s, {"drop_cursor"})
         /\ (op = "drop_cursor" => ~Borrowed(s, CursorOps))

\* Cursor::scroll, advance, current_row, get_row_size, Row::get_type, get,
\* is_null, and Cursor::drop (close_cursor): a failed
\* Weak<InnerStatement>::upgrade() returns Err(-26004)
FailWeakOp(t, s, op) ==
    /\ MayStart(t, op)
    /\ Holds(s, op)
    /\ stmt[s].strong = 0
    /\ thr' = [thr EXCEPT ![t] = [Begin(op, s, "ret") EXCEPT !.res = StatementDropped]]
    /\ stmt' = [stmt EXCEPT ![s].cursor = IF op = "drop_cursor" THEN FALSE ELSE @]
    /\ UNCHANGED <<serial, conc, batch, tx, cursor, fetched, report, answer, opening, lob, sessLock, regLock, connHeld, connStrong, sessEnded, registry, cdLock, leaked,
                   tdTodo, tdCur, lateEnd>>

\* ... and a successful upgrade() holds a transient Arc<InnerStatement>, with
\* which the operation takes the guard
StartWeakOp(t, s, op) ==
    /\ MayStart(t, op)
    /\ Holds(s, op)
    /\ stmt[s].strong > 0
    /\ guard_free(s)
    /\ thr' = [thr EXCEPT ![t] = Begin(op, s, IF Checked(op) THEN "check" ELSE "call")]
    /\ stmt' = [stmt EXCEPT ![s].strong = @ + 1, ![s].lock = t,
                            ![s].cursor = IF op = "drop_cursor" THEN FALSE ELSE @]
    /\ UNCHANGED <<serial, conc, batch, tx, cursor, fetched, report, answer, opening, lob, sessLock, regLock, connHeld, connStrong, sessEnded, registry, cdLock, leaked,
                   tdTodo, tdCur, lateEnd>>

\* the code that held the guard returns: the guard is dropped, then the
\* transient Arc<InnerStatement> if the operation holds one.  `called` tells
\* whether the native call was made, `status` what it returned.
Finish(t, res, called, status) ==
    LET s == thr[t].s
        op == thr[t].op
        left == stmt[s].strong - (IF Transient(op) THEN 1 ELSE 0) IN
    /\ thr' = [thr EXCEPT ![t].pc = AfterRelease(left),
                          ![t].res = res,
                          ![t].native = called,
                          ![t].stale = called /\ Stale(s)]
    /\ stmt' = [stmt EXCEPT
         ![s].lock = IF @ = t THEN 0 ELSE @,
         ![s].strong = left,
         ![s].cursor = IF op = "open_cursor" /\ status = "success" THEN TRUE ELSE @,
         ![s].row = IF op \in {"advance", "scroll"} /\ status = "success" THEN TRUE ELSE @]

\* the holder of the handle guard when the native call is made.
\* MimerError::new copies the raw handle out of the guard that get_handle
\* returned, inside the arm of `match handle.get_handle()`: the guard is
\* dropped at the end of that `let`, before MimerGetError8 is called.
guard_at_call(op, t) == IF op \in ErrorOps THEN 0 ELSE t

\* check_connection()? with the guard held
Check(t) ==
    /\ thr[t].pc = "check"
    /\ LET rc == check_connection(connStrong) IN
       IF rc # MIMER_SUCCESS
       THEN Finish(t, rc, FALSE, "none")
       ELSE /\ thr' = [thr EXCEPT ![t].pc = "call"]
            /\ stmt' = [stmt EXCEPT ![thr[t].s].lock = guard_at_call(thr[t].op, t)]
    /\ UNCHANGED <<serial, conc, batch, tx, cursor, fetched, report, answer, opening, lob, sessLock, regLock, connHeld, connStrong, sessEnded, registry, cdLock, leaked,
                   tdTodo, tdCur, lateEnd>>

\* the statuses the native call of an operation can return
NativeStatus(op) ==
    IF op \in {"advance", "scroll"} THEN {"success", "no_data", "error"}
    ELSE {"success", "error"}


\* Statement::execute_bind keeps `handle`, the guard taken on entry, across
\* set_params and MimerExecute: the holder of the guard after the binding
guard_after_bind(t) == t

\* faulty variant: binding a parameter locks the statement again
bind_relocks(s, t) == guard_free(s)

\* Statement::set_params and bind_param_auxillary are given the raw handle
\* by the caller that holds the guard and take no lock themselves
bind_ready(s, t) == TRUE

\* the native call(s) of the operation on the statement handle; num_params
\* answers from the Statement itself.  A negative status is returned as Err
\* (by Cursor::drop, as a panic after close_cursor has returned).
\* execute_bind first binds its parameters (set_params, none when params is
\* empty) and returns the status of a binding that fails; otherwise it goes
\* on to MimerExecute.
Call(t) ==
    /\ thr[t].pc = "call"
    /\ (thr[t].op \in {"execute_bind", "add_batch"} => bind_ready(thr[t].s, t))
    /\ IF thr[t].op = "num_params"
       THEN Finish(t, MIMER_SUCCESS, FALSE, "none")
       ELSE IF thr[t].op = "execute_bind"
       THEN \E bound \in {"empty", "success", "error"} :
              IF bound = "error"
              THEN Finish(t, NativeError, TRUE, "error")
              ELSE /\ thr' = [thr EXCEPT ![t].pc = "exec",
                                         ![t].native = (bound = "success"),
                                         ![t].stale = (bound = "success" /\ Stale(thr[t].s))]
                   /\ stmt' = [stmt EXCEPT ![thr[t].s].lock = guard_after_bind(t)]
       ELSE \E status \in NativeStatus(thr[t].op) :
              Finish(t, IF status = "error" THEN NativeError ELSE MIMER_SUCCESS,
                     TRUE, status)
    /\ UNCHANGED <<serial, conc, batch, tx, cursor, fetched, report, answer, opening, lob, sessLock, regLock, connHeld, connStrong, sessEnded, registry, cdLock, leaked,
                   tdTodo, tdCur, lateEnd>>

\* unsafe { let rc = ffi::MimerExecute(*handle); .. } at the end of execute_bind
Exec(t) ==
    /\ thr[t].pc = "exec"
    /\ \E status \in NativeStatus(thr[t].op) :
         Finish(t, IF status = "error" THEN NativeError ELSE MIMER_SUCCESS, TRUE, status)
    /\ UNCHANGED <<serial, conc, batch, tx, cursor, fetched, report, answer, opening, lob, sessLock, regLock, connHeld, connStrong, sessEnded, registry, cdLock, leaked,
                   tdTodo, tdCur, lateEnd>>

\* drop of a Statement: the Statement's Arc<InnerStatement> is released
DropStatement(t, s) ==
    /\ MayStart(t, "drop_statement")
    /\ stmt[s].st = "held"
    /\ ~Borrowed(s, StmtOps \cup ErrorOps)
    /\ thr' = [thr EXCEPT ![t] = Begin("drop_statement", s, AfterRelease(stmt[s].strong - 1))]
    /\ stmt' = [stmt EXCEPT ![s].st = "dropped", ![s].strong = @ - 1]
    /\ UNCHANGED <<serial, conc, batch, tx, cursor, fetched, report, answer, opening, lob, sessLock, regLock, connHeld, connStrong, sessEnded, registry, cdLock, leaked,
                   tdTodo, tdCur, lateEnd>>

(* ---- impl Drop for InnerStatement ---- *)

\* faulty variant: the drop ends the handle whatever check_connection says
drop_always_ends(rc) == IF rc = MIMER_SUCCESS THEN "sd_upgrade" ELSE "sd_end"

\* what the drop does with the result of check_connection:
\* Ok(_) goes on to deregister and end, Err(-26003) => ()
drop_after_check(rc) == IF rc = MIMER_SUCCESS THEN "sd_upgrade" ELSE "ret"

\* let mut handle = self.get_statement_handle().unwrap().unwrap();
\* match self.check_connection().  Nobody holds the guard of an
\* InnerStatement without a strong reference to it, so the guard is free.
SdCheck(t) ==
    /\ thr[t].pc = "sd_check"
    /\ guard_free(thr[t].s)
    /\ LET next == drop_after_check(check_connection(connStrong)) IN
       /\ thr' = [thr EXCEPT ![t].pc = next]
       /\ stmt' = [stmt EXCEPT ![thr[t].s].lock = IF next = "ret" THEN 0 ELSE t]
    /\ UNCHANGED <<serial, conc, batch, tx, cursor, fetched, report, answer, opening, lob, sessLock, regLock, connHeld, connStrong, sessEnded, registry, cdLock, leaked,
                   tdTodo, tdCur, lateEnd>>

\* self.inner_connection.upgrade().unwrap(): a transient Arc<InnerConnection>;
\* the unwrap panics when the last strong reference went away after the check,
\* and unwinding drops the handle guard
SdUpgrade(t) ==
    /\ thr[t].pc = "sd_upgrade"
    /\ IF connStrong = 0
       THEN /\ thr' = [thr EXCEPT ![t].pc = "panic_unwrap"]
            /\ stmt' = [stmt EXCEPT ![thr[t].s].lock = 0]
            /\ UNCHANGED connStrong
       ELSE /\ thr' = [thr EXCEPT ![t].pc = "sd_remove"]
            /\ connStrong' = connStrong + 1
            /\ UNCHANGED stmt
    /\ UNCHANGED <<serial, conc, batch, tx, cursor, fetched, report, answer, opening, lob, sessLock, regLock, connHeld, sessEnded, registry, cdLock, leaked,
                   tdTodo, tdCur, lateEnd>>

\* .remove_statement(self.statement_list_in_connection_id); at the end of
\* that statement the transient Arc<InnerConnection> is released, and if it
\* was the last one InnerConnection::drop runs here, before MimerEndStatement
SdRemove(t) ==
    /\ thr[t].pc = "sd_remove"
    /\ regLock = 0
    /\ registry' = remove_statement(registry, thr[t].s)
    /\ connStrong' = connStrong - 1
    /\ IF connStrong = 1
       THEN /\ thr' = [thr EXCEPT ![t].pc = "td_loop"]
            /\ tdTodo' = teardown_entries(registry')
       ELSE /\ thr' = [thr EXCEPT ![t].pc = "sd_end"]
            /\ UNCHANGED tdTodo
    /\ UNCHANGED <<serial, conc, batch, tx, cursor, fetched, report, answer, opening, lob, sessLock, regLock, connHeld, sessEnded, cdLock, stmt, leaked, tdCur, lateEnd>>

\* unsafe { ffi::MimerEndStatement(&mut *handle); } and the guard is dropped
SdEnd(t) ==
    /\ thr[t].pc = "sd_end"
    /\ stmt' = [stmt EXCEPT ![thr[t].s].ended = @ + 1, ![thr[t].s].lock = 0]
    /\ lateEnd' = (lateEnd \/ sessEnded)
    /\ thr' = [thr EXCEPT ![t].pc = "ret", ![t].native = TRUE]
    /\ UNCHANGED <<serial, conc, batch, tx, cursor, fetched, report, answer, opening, lob, sessLock, regLock, connHeld, connStrong, sessEnded, registry, cdLock, leaked,
                   tdTodo, tdCur>>

(* ---- drop of the Connection, impl Drop for InnerConnection ---- *)

\* the Connection's Arc<InnerConnection> is released; the last strong
\* reference runs InnerConnection::drop on this thread
DropConnection(t) ==
    /\ MayStart(t, "drop_connection")
    /\ connHeld
    /\ ~SessionInUse
    /\ connHeld' = FALSE
    /\ connStrong' = connStrong - 1
    /\ IF connStrong = 1
       THEN /\ thr' = [thr EXCEPT ![t] = Begin("drop_connection", 0, "td_loop")]
            /\ tdTodo' = teardown_entries(registry)
       ELSE /\ thr' = [thr EXCEPT ![t] = Begin("drop_connection", 0, "ret")]
            /\ UNCHANGED tdTodo
    /\ UNCHANGED <<serial, conc, batch, tx, cursor, fetched, report, answer, opening, lob, sessLock, regLock, sessEnded, registry, cdLock, stmt, leaked, tdCur, lateEnd>>

\* for stmt in self.statements.lock().values_mut() { if let Some(stmt) =
\* stmt.upgrade() {..} }: the loop takes the entries in the HashMap's
\* unspecified order and skips those whose InnerStatement is being dropped
TdLoop(t) ==
    /\ thr[t].pc = "td_loop"
    /\ regLock \in {0, t}
    /\ IF tdTodo = {}
       THEN /\ thr' = [thr EXCEPT ![t].pc = "td_end_session"]
            /\ regLock' = 0
            /\ UNCHANGED <<stmt, tdTodo, tdCur>>
       ELSE \E s \in tdTodo :
            /\ tdTodo' = tdTodo \ {s}
            /\ regLock' = t
            /\ IF stmt[s].strong = 0
               THEN UNCHANGED <<thr, stmt, tdCur>>
               ELSE /\ stmt' = [stmt EXCEPT ![s].strong = @ + 1]
                    /\ tdCur' = s
                    /\ thr' = [thr EXCEPT ![t].pc = "td_end_stmt"]
    /\ UNCHANGED <<serial, conc, batch, tx, cursor, fetched, report, answer, opening, lob, sessLock, connHeld, connStrong, sessEnded, registry, cdLock,
                   leaked, lateEnd>>

\* faulty variant: the teardown ends a handle without taking its guard
end_statement_unguarded(s) == TRUE

\* InnerStatement::end_statement takes the handle guard:
\* let mut handle = self.get_statement_handle()?.unwrap()
end_statement_ready(s) == guard_free(s)

\* stmt.end_statement().unwrap(): MimerEndStatement under the statement's
\* guard; a negative status (a handle that was already ended) panics.  The
\* upgraded Arc is then released: if it was the last one, InnerStatement::drop
\* runs here, its check_connection fails and it does nothing.
TdEndStmt(t) ==
    /\ thr[t].pc = "td_end_stmt"
    /\ end_statement_ready(tdCur)
    /\ IF Stale(tdCur)
       THEN /\ thr' = [thr EXCEPT ![t].pc = "panic_end"]
            /\ stmt' = [stmt EXCEPT ![tdCur].strong = @ - 1]
            /\ regLock' = 0
       ELSE /\ thr' = [thr EXCEPT ![t].pc = "td_loop"]
            /\ stmt' = [stmt EXCEPT ![tdCur].ended = @ + 1, ![tdCur].strong = @ - 1]
            /\ UNCHANGED regLock
    /\ tdCur' = 0
    /\ UNCHANGED <<serial, conc, batch, tx, cursor, fetched, report, answer, opening, lob, sessLock, connHeld, connStrong, sessEnded, registry, cdLock,
                   leaked, tdTodo, lateEnd>>

\* let _lck = connect_disconnect_mtx.lock();
\* ffi::MimerEndSessionHard(&mut *self.get_session_handle().unwrap().unwrap())
TdEndSession(t) ==
    /\ thr[t].pc = "td_end_session"
    /\ cdLock = 0
    /\ sessLock = 0
    /\ cdLock' = t
    /\ sessEnded' = TRUE
    /\ thr' = [thr EXCEPT ![t].pc = "td_unlock"]
    /\ UNCHANGED <<serial, conc, batch, tx, cursor, fetched, report, answer, opening, lob, sessLock, regLock, connHeld, connStrong, registry, stmt, leaked,
                   tdTodo, tdCur, lateEnd>>

\* where the thread continues when InnerConnection::drop returns: in the
\* InnerStatement::drop whose transient Arc ran it, or in the application
AfterTeardown(op) == IF op = "drop_connection" THEN "ret" ELSE "sd_end"

\* _lck goes out of scope and InnerConnection::drop returns
TdUnlock(t) ==
    /\ thr[t].pc = "td_unlock"
    /\ cdLock' = 0
    /\ thr' = [thr EXCEPT ![t].pc = AfterTeardown(thr[t].op)]
    /\ UNCHANGED <<serial, conc, batch, tx, cursor, fetched, report, answer, opening, lob, sessLock, regLock, connHeld, connStrong, sessEnded, registry, stmt, leaked,
                   tdTodo, tdCur, lateEnd>>

(* ---- operations on the Connection ---- *)

\* Connection::execute_statement and Connection::get_error (MimerError::new):
\* get_session_handle / get_handle lock InnerConnection.session.  The
\* Connection is borrowed, so it is neither dropped nor borrowed mutably
\* (prepare) while the call runs.
StartSessOp(t, op) ==
    /\ MayStart(t, op)
    /\ connHeld
    /\ sessLock = 0
    /\ sessLock' = guard_at_call(op, t)
    /\ thr' = [thr EXCEPT ![t] = Begin(op, 0, "sess_call")]
    /\ UNCHANGED <<serial, conc, batch, tx, cursor, fetched, report, answer, opening, lob, regLock, connHeld, connStrong, sessEnded, registry, cdLock, stmt,
                   leaked, tdTodo, tdCur, lateEnd>>

\* MimerExecuteStatement8, or the two MimerGetError8 calls, on the session
\* handle; the guard, if the thread holds it, is dropped after the call
SessCall(t) ==
    /\ thr[t].pc = "sess_call"
    /\ \E status \in {"success", "error"} :
         thr' = [thr EXCEPT ![t].pc = "ret",
                            ![t].res = IF status = "error" THEN NativeError ELSE MIMER_SUCCESS,
                            ![t].native = TRUE]
    /\ sessLock' = IF sessLock = t THEN 0 ELSE sessLock
    /\ UNCHANGED <<serial, conc, batch, tx, cursor, fetched, report, answer, opening, lob, regLock, connHeld, connStrong, sessEnded, registry, cdLock, stmt,
                   leaked, tdTodo, tdCur, lateEnd>>

\* faulty variant: a session is begun without the connect/disconnect lock
open_without_lock(t) == 0

\* InnerConnection::open: let _lck = connect_disconnect_mtx.lock()
open_lock(t) == t

\* Connection::open of a further Connection of the process, up to the
\* native call
StartOpen(t) ==
    /\ MayStart(t, "open")
    /\ cdLock = 0
    /\ cdLock' = open_lock(t)
    /\ thr' = [thr EXCEPT ![t] = Begin("open", 0, "open_call")]
    /\ UNCHANGED <<serial, conc, batch, tx, cursor, fetched, report, answer, opening, lob, sessLock, regLock, connHeld, connStrong, sessEnded, registry, stmt,
                   leaked, tdTodo, tdCur, lateEnd>>

\* MimerBeginSession8 and the end of the block that holds _lck
OpenCall(t) ==
    /\ thr[t].pc = "open_call"
    /\ \E status \in {"success", "error"} :
         thr' = [thr EXCEPT ![t].pc = "ret",
                            ![t].res = IF status = "error" THEN NativeError ELSE MIMER_SUCCESS,
                            ![t].native = TRUE]
    /\ cdLock' = IF cdLock = t THEN 0 ELSE cdLock
    /\ UNCHANGED <<serial, conc, batch, tx, cursor, fetched, report, answer, opening, lob, sessLock, regLock, connHeld, connStrong, sessEnded, registry, stmt,
                   leaked, tdTodo, tdCur, lateEnd>>

\* the operation returns to the application
Return(t) ==
    /\ thr[t].pc = "ret"
    /\ thr' = [thr EXCEPT ![t] = Idle]
    /\ UNCHANGED <<serial, conc, batch, tx, cursor, fetched, report, answer, opening, lob, sessLock, regLock, connHeld, connStrong, sessEnded, registry, cdLock, stmt,
                   leaked, tdTodo, tdCur, lateEnd>>

(* ---- specifications ---- *)

Next ==
    \E t \in Threads :
        \/ \E s \in Stmts : Prepare(t, s)
        \/ \E s \in Stmts, op \in StmtOps \cup {"get_error"} : StartStmtOp(t, s, op)
        \/ \E s \in Stmts, op \in CursorOps \cup RowOps : FailWeakOp(t, s, op)
        \/ \E s \in Stmts, op \in CursorOps \cup RowOps : StartWeakOp(t, s, op)
        \/ \E s \in Stmts : DropStatement(t, s)
        \/ DropConnection(t)
        \/ Check(t) \/ Call(t) \/ Exec(t)
        \/ SdCheck(t) \/ SdUpgrade(t) \/ SdRemove(t) \/ SdEnd(t)
        \/ TdLoop(t) \/ TdEndStmt(t) \/ TdEndSession(t) \/ TdUnlock(t)
        \/ \E op \in SessOps : StartSessOp(t, op)
        \/ SessCall(t)
        \/ StartOpen(t) \/ OpenCall(t)
        \/ Return(t)

\* threads interleave freely, one step at a time
Spec == Init /\ [][Next]_vars

\* operations run one after another: a thread starts an operation only
\* when no other operation is in flight
SeqSpec == SeqInit /\ [][Next]_vars

\* free interleaving of the operations of GuardOps
GuardSpec == GuardInit /\ [][Next]_vars

(* ---- batches: Statement::add_batch and Statement::execute ---- *)

\* the parameter lists given to the k-th call, of the right and of wrong
\* lengths; the values of a list tell which call bound them
ParamSets(k) == {[i \in 1..n |-> k] : n \in 0..(MaxParams + 1)}

\* the main model's variables, which the batch operations leave alone
mainVars == <<serial, conc, thr, connHeld, connStrong, sessEnded, registry, cdLock, stmt,
              leaked, tdTodo, tdCur, lateEnd, sessLock, regLock>>

\* number of calls of native function f in the log
Issued(log, f) == Cardinality({i \in 1..Len(log) : log[i] = f})

\* the last call was an execute that submitted the batch: the parameter
\* lists given from now on belong to the next batch
AfterExecute(hist) == Len(hist) > 0 /\ hist[Len(hist)] = "exec_ok"

\* faulty variant: the parameter count is not checked
add_batch_rejects_none(num, len) == FALSE

\* if self.num_parameters != params.len() { return Err(-26006); }
add_batch_rejects(num, len) == num # len

\* faulty variant: every add_batch adds the bound row to the batch
add_batch_due_always(batch_bool) == TRUE

\* if self.batch_bool { rc = ffi::MimerAddBatch(*handle); }
add_batch_due(batch_bool) == batch_bool

\* faulty variant: the new parameters are bound before the pending row is
\* added to the batch
add_batch_calls_bind_first(due, sets) ==
    [i \in 1..sets |-> "MimerSet"] \o (IF due THEN <<"MimerAddBatch">> ELSE <<>>)

\* The native calls of one add_batch in the order the method makes them:
\* MimerAddBatch when a row is pending, then one MimerSet call per parameter
\* up to the first that fails.
add_batch_calls(due, sets) ==
    (IF due THEN <<"MimerAddBatch">> ELSE <<>>) \o [i \in 1..sets |-> "MimerSet"]

\* Statement::add_batch on a Statement whose Connection is alive.  After the
\* count check MimerAddBatch moves the bound row to the batch when a row is
\* pending; set_params then binds the parameters one by one and `?` returns
\* the first failure (bound: the parameters set before it), leaving
\* batch_bool as it was; otherwise batch_bool becomes true and the status
\* of MimerAddBatch is returned.
add_batch(params) ==
    /\ Len(batch.hist) < MaxCalls
    /\ IF add_batch_rejects(batch.num_parameters, Len(params))
       THEN batch' = [batch EXCEPT
                !.hist = Append(@, "add_err"),
                !.last = [op |-> "add_batch", params |-> params,
                          res |-> WrongParameterCount]]
       ELSE \E rc \in {MIMER_SUCCESS, NativeError}, bound \in 0..Len(params) :
            LET due == add_batch_due(batch.batch_bool)
                n == Len(params)
                set_ok == bound = n
                sets == IF set_ok THEN n ELSE bound + 1
                res == IF ~set_ok THEN NativeError ELSE IF due THEN rc ELSE MIMER_SUCCESS
            IN
            /\ (~due => rc = MIMER_SUCCESS)
            /\ batch' = [batch EXCEPT
                 !.queue = IF due /\ rc = MIMER_SUCCESS THEN Append(@, batch.row) ELSE @,
                 !.row = [i \in DOMAIN batch.row |->
                            IF i <= bound /\ i <= n THEN params[i] ELSE batch.row[i]],
                 !.log = @ \o add_batch_calls(due, sets),
                 !.batch_bool = IF set_ok THEN TRUE ELSE @,
                 !.hist = Append(@, IF res = MIMER_SUCCESS THEN "add_ok" ELSE "add_err"),
                 !.given = IF res # MIMER_SUCCESS THEN @
                           ELSE IF AfterExecute(batch.hist) THEN <<params>>
                           ELSE Append(@, params),
                 !.last = [op |-> "add_batch", params |-> params, res |-> res]]
    /\ UNCHANGED <<mainVars, tx, cursor, fetched, report, answer, opening, lob>>

\* Statement::execute on that Statement: MimerExecute submits the batch and
\* the bound row; it fails when a parameter of the row was never set.
\* batch_bool is not touched.
execute ==
    /\ Len(batch.hist) < MaxCalls
    /\ \E status \in {"success", "error"} :
         /\ ((\E i \in DOMAIN batch.row : batch.row[i] = 0) => status = "error")
         /\ batch' = [batch EXCEPT
              !.submitted = IF status = "success" THEN Append(batch.queue, batch.row)
                            ELSE <<>>,
              !.queue = IF status = "success" THEN <<>> ELSE @,
              !.log = Append(@, "MimerExecute"),
              !.hist = Append(@, IF status = "success" THEN "exec_ok" ELSE "exec_err"),
              !.last = [op |-> "execute", params |-> <<>>,
                        res |-> IF status = "success" THEN MIMER_SUCCESS ELSE NativeError]]
    /\ UNCHANGED <<mainVars, tx, cursor, fetched, report, answer, opening, lob>>

\* a freshly prepared Statement with 0..MaxParams parameters
BatchInit ==
    /\ InitWith(TRUE, {})
    /\ \E n \in 0..MaxParams : batch = FreshStatement(n)
    /\ tx = NoTransaction
    /\ cursor = OpenedCursor("Forward", 0)
    /\ fetched = FetchedColumn("small_int", FALSE, 0)
    /\ report = NoReport("Connection")
    /\ answer = NoAnswer
    /\ opening = NotOpening
    /\ lob = NoLob

BatchNext ==
    \/ \E params \in ParamSets(Len(batch.hist) + 1) : add_batch(params)
    \/ execute

\* one thread calls add_batch and execute on one Statement
BatchSpec == BatchInit /\ [][BatchNext]_vars

(* ---- transactions: Connection::begin_transaction and Transaction ---- *)

Work == 1..MaxWork

\* the native session after MimerEndTransaction(session, mode), with the
\* call added to the log.  With no transaction open the call is rejected
\* with -24101 and changes nothing (rollback_on_drop); a rollback of the
\* open transaction discards its work; a commit makes it durable, or
\* fails, and a failed commit may have aborted the transaction.
MimerEndTransaction(n, mode, ok, aborts) ==
    IF ~n.open
    THEN [n EXCEPT !.log = Append(@, [mode |-> mode, rc |-> NativeError, effect |-> FALSE])]
    ELSE IF mode = "Rollback"
    THEN [n EXCEPT !.open = FALSE, !.pending = {},
                   !.log = Append(@, [mode |-> mode, rc |-> MIMER_SUCCESS, effect |-> TRUE])]
    ELSE IF ok
    THEN [n EXCEPT !.open = FALSE, !.pending = {}, !.durable = @ \cup n.pending,
                   !.log = Append(@, [mode |-> mode, rc |-> MIMER_SUCCESS, effect |-> TRUE])]
    ELSE [n EXCEPT !.open = IF aborts THEN FALSE ELSE @,
                   !.pending = IF aborts THEN {} ELSE @,
                   !.log = Append(@, [mode |-> mode, rc |-> NativeError, effect |-> FALSE])]

\* the result of the latest MimerEndTransaction call
LastRc(n) == n.log[Len(n.log)].rc

\* faulty variant: dropping a Transaction ends nothing
drop_transaction_forgets(n) == [n EXCEPT !.held = @ - 1]

\* impl Drop for Transaction: self.end_transaction(Rollback).ok()
drop_transaction(n) ==
    [MimerEndTransaction(n, "Rollback", TRUE, FALSE) EXCEPT !.held = @ - 1]

\* faulty variant: commit ends the transaction with Rollback
commit_mode_rollback == "Rollback"

\* Transaction::commit: self.end_transaction(EndTransactionMode::Commit)
commit_mode == "Commit"

\* faulty variant: Transaction::new returns a Transaction whatever the status
new_creates_always(rc) == TRUE

\* Transaction::new: Ordering::Equal => Ok(Transaction { connection: conn }),
\* Ordering::Less => Err(rc)
new_creates(rc) == rc = MIMER_SUCCESS

\* Connection::begin_transaction / Transaction::new.  While a Transaction is
\* held the Connection is borrowed by it and the call is made through its
\* DerefMut.  MimerBeginTransaction is rejected with -14011 when the session
\* has a transaction open (transaction_begin_deref) and may fail otherwise;
\* Ok creates a Transaction.
begin_transaction ==
    /\ tx.begun < MaxTx
    /\ \E ok \in BOOLEAN :
         LET rc == IF tx.open THEN TransactionOpen
                   ELSE IF ok THEN MIMER_SUCCESS ELSE NativeError
             n == [tx EXCEPT !.open = (@ \/ rc = MIMER_SUCCESS),
                             !.inTx = IF rc = MIMER_SUCCESS THEN {} ELSE @,
                             !.log = IF rc = MIMER_SUCCESS THEN <<>> ELSE @,
                             !.begun = @ + 1,
                             !.last = [op |-> "begin_transaction", res |-> rc]] IN
         tx' = IF new_creates(rc) THEN [n EXCEPT !.held = @ + 1] ELSE n
    /\ UNCHANGED <<mainVars, batch, cursor, fetched, report, answer, opening, lob>>

\* Connection::execute_statement of an INSERT, on the Connection or through
\* the Transaction's Deref: its work belongs to the open transaction, or is
\* committed at once when there is none
execute_statement(w) ==
    /\ w \notin tx.pending \cup tx.durable \cup tx.inTx
    /\ \E ok \in BOOLEAN :
         tx' = IF ~ok THEN [tx EXCEPT !.last = [op |-> "execute_statement", res |-> NativeError]]
               ELSE [tx EXCEPT
                       !.pending = IF tx.open THEN @ \cup {w} ELSE @,
                       !.durable = IF tx.open THEN @ ELSE @ \cup {w},
                       !.inTx = IF tx.held > 0 THEN @ \cup {w} ELSE @,
                       !.last = [op |-> "execute_statement", res |-> MIMER_SUCCESS]]
    /\ UNCHANGED <<mainVars, batch, cursor, fetched, report, answer, opening, lob>>

\* Transaction::commit(mut self): end_transaction(Commit), then self is
\* dropped and the drop issues its rollback
commit ==
    /\ tx.held > 0
    /\ \E ok \in BOOLEAN, aborts \in BOOLEAN :
         LET n == MimerEndTransaction(tx, commit_mode, ok, aborts) IN
         tx' = [drop_transaction(n) EXCEPT !.last = [op |-> "commit", res |-> LastRc(n)]]
    /\ UNCHANGED <<mainVars, batch, cursor, fetched, report, answer, opening, lob>>

\* Transaction::rollback(mut self): end_transaction(Rollback), then the drop
rollback ==
    /\ tx.held > 0
    /\ LET n == MimerEndTransaction(tx, "Rollback", TRUE, FALSE) IN
       tx' = [drop_transaction(n) EXCEPT !.last = [op |-> "rollback", res |-> LastRc(n)]]
    /\ UNCHANGED <<mainVars, batch, cursor, fetched, report, answer, opening, lob>>

\* the Transaction goes out of scope without commit or rollback
drop ==
    /\ tx.held > 0
    /\ tx' = [drop_transaction(tx) EXCEPT !.last = [op |-> "drop", res |-> MIMER_SUCCESS]]
    /\ UNCHANGED <<mainVars, batch, cursor, fetched, report, answer, opening, lob>>

TxInit ==
    /\ InitWith(TRUE, {})
    /\ batch = FreshStatement(0)
    /\ tx = NoTransaction
    /\ cursor = OpenedCursor("Forward", 0)
    /\ fetched = FetchedColumn("small_int", FALSE, 0)
    /\ report = NoReport("Connection")
    /\ answer = NoAnswer
    /\ opening = NotOpening
    /\ lob = NoLob

TxNext ==
    \/ begin_transaction
    \/ \E w \in Work : execute_statement(w)
    \/ commit
    \/ rollback
    \/ drop

\* one thread uses the Transactions of one Connection
TxSpec == TxInit /\ [][TxNext]_vars

(* ---- properties ---- *)

Returned(t, ops) == thr[t].pc = "ret" /\ thr[t].op \in ops

\* C1: once the Connection has been dropped while a Statement is still held,
\* every Statement operation (execute, execute_bind, bind, add_batch,
\* open_cursor, column_count, get_column_name, get_parameter_name,
\* get_parameter_mode, num_params, set_array_size) returns -26003 and has
\* made no native call on the statement handle.
C1_OrphanedStatementOps ==
    \A t \in Threads :
        Returned(t, StmtOps) /\ ~connHeld =>
            thr[t].res = ConnectionDropped /\ ~thr[t].native

C1_Witness ==
    \E t \in Threads :
        /\ Returned(t, {"add_batch"}) /\ ~connHeld
        /\ thr[t].res = ConnectionDropped
        /\ stmt[thr[t].s].st = "held"

C2Ops == {"execute", "execute_bind", "bind", "advance", "scroll"}

\* C2: whatever the interleaving of execute, execute_bind, bind, next_row or
\* scroll with a drop of the Connection on another thread, a native call on
\* the statement handle is made only while the handle has not been ended:
\* an operation that did not make its call returned -26003 (or -26004, its
\* Statement being gone).
C2_NoCallOnEndedHandle ==
    \A t \in Threads :
        thr[t].op \in C2Ops =>
            /\ thr[t].native => ~thr[t].stale
            /\ thr[t].pc = "ret" /\ ~thr[t].native =>
                   thr[t].res \in {ConnectionDropped, StatementDropped}

\* the teardown on one thread has waited for the guard of a statement whose
\* operation, on another thread, has now made its call on the live handle
C2_Witness ==
    \E t, u \in Threads :
        /\ Returned(t, {"execute_bind"})
        /\ thr[t].native /\ ~thr[t].stale
        /\ thr[u].pc = "td_end_stmt" /\ tdCur = thr[t].s

\* C3: MimerEndStatement is issued at most once for a statement handle, in
\* whatever order and on whatever threads the Statement and the Connection
\* are dropped; a drop of the Statement that starts when the Connection is
\* gone issues no native call.
C3_EndStatementAtMostOnce ==
    /\ \A s \in Stmts : stmt[s].ended <= 1
    /\ \A t \in Threads :
         thr[t].op = "drop_statement" /\ thr[t].late => ~thr[t].native

C3_Witness ==
    \E t \in Threads :
        /\ Returned(t, {"drop_statement"})
        /\ thr[t].late
        /\ stmt[thr[t].s].ended = 1

\* C4: when the teardown has issued MimerEndSessionHard, it holds the
\* connect/disconnect lock and every statement that is registered and alive
\* has been force-ended.
C4_EndSessionAfterStatements ==
    \A t \in Threads :
        thr[t].pc = "td_unlock" =>
            /\ cdLock = t
            /\ sessEnded
            /\ \A s \in registry : stmt[s].strong > 0 => stmt[s].ended = 1

C4_Witness ==
    \E t \in Threads :
        /\ thr[t].pc = "td_unlock"
        /\ \E s \in registry : stmt[s].st = "held" /\ stmt[s].ended = 1

\* C5: when a Statement is dropped on one thread while its Connection is
\* dropped on another, MimerEndStatement is never issued after
\* MimerEndSessionHard and the drop of the Statement does not panic.
C5_ReleaseInDependencyOrder ==
    /\ ~lateEnd
    /\ \A t \in Threads : thr[t].pc # "panic_unwrap"

Quiescent == \A t \in Threads : thr[t].pc = "idle"

\* C6: between operations, the registry of a Connection has as many entries
\* as there are alive Statements prepared from it.
C6_RegistryCount ==
    Quiescent /\ connHeld =>
        Cardinality(registry) = Cardinality({s \in Stmts : stmt[s].st = "held"})

C6_Witness ==
    /\ Quiescent /\ connHeld
    /\ Cardinality(registry) = 1
    /\ \E s \in Stmts : stmt[s].st = "dropped"

\* C7: with no other operation in flight, the drop of the Connection ends the
\* native session although Statements, Cursors and Rows are held, and the
\* drop of a Statement ends its native handle (and deregisters it) although
\* a Cursor or a Row on it is held.
C7_ChildrenKeepNothingAlive ==
    \A t \in Threads :
        /\ Returned(t, {"drop_connection"}) => sessEnded /\ connStrong = 0
        /\ Returned(t, {"drop_statement"}) =>
               /\ stmt[thr[t].s].strong = 0
               /\ stmt[thr[t].s].ended = 1
               /\ thr[t].s \notin registry \/ ~connHeld

C7_Witness ==
    \E t \in Threads, s1, s2 \in Stmts :
        /\ Returned(t, {"drop_connection"}) /\ sessEnded
        /\ stmt[s1].st = "held" /\ stmt[s1].cursor /\ stmt[s1].row
        /\ stmt[s2].st = "dropped" /\ stmt[s2].cursor /\ stmt[s2].row
        /\ stmt[s2].ended = 1 /\ s2 \notin registry

\* C8: next_row/advance, scroll and current_row return -26004 when the
\* Statement has been dropped (whether or not the Connection is gone too),
\* otherwise -26003 when the Connection has been dropped, and make no
\* native call in either case.
C8_FetchRevalidatesParents ==
    \A t \in Threads :
        Returned(t, FetchOps) =>
            /\ stmt[thr[t].s].st = "dropped" =>
                   thr[t].res = StatementDropped /\ ~thr[t].native
            /\ stmt[thr[t].s].st = "held" /\ ~connHeld =>
                   thr[t].res = ConnectionDropped /\ ~thr[t].native

C8_Witness ==
    \E t \in Threads :
        /\ Returned(t, {"scroll"}) /\ ~connHeld
        /\ stmt[thr[t].s].st = "held"
        /\ thr[t].res = ConnectionDropped /\ ~thr[t].native

\* C9: current_row and get_row_size, called on a Cursor whose Connection has
\* been dropped while its Statement is held, return -26003 and make no
\* native call.
C9_MetadataRevalidatesParents ==
    \A t \in Threads :
        /\ Returned(t, {"current_row", "get_row_size"})
        /\ stmt[thr[t].s].st = "held" /\ ~connHeld
        => thr[t].res = ConnectionDropped /\ ~thr[t].native

\* C10: Row::get, get_type and is_null return -26004 after the Statement has
\* been dropped, -26003 after the Connection has been dropped while the
\* Statement is held, and make no native call in either case.
C10_RowRevalidatesParents ==
    \A t \in Threads :
        Returned(t, RowOps) =>
            /\ stmt[thr[t].s].st = "dropped" =>
                   thr[t].res = StatementDropped /\ ~thr[t].native
            /\ stmt[thr[t].s].st = "held" /\ ~connHeld =>
                   thr[t].res = ConnectionDropped /\ ~thr[t].native

C10_Witness ==
    \E t \in Threads :
        /\ Returned(t, {"get"})
        /\ stmt[thr[t].s].st = "dropped" /\ connHeld
        /\ thr[t].res = StatementDropped

\* C11: the drop of a Cursor whose Statement or Connection is gone makes no
\* native close-cursor call and does not panic; the drop of a Cursor whose
\* Statement and Connection are both alive makes the native close-cursor call
\* (once).
C11_CursorDropTolerant ==
    \A t \in Threads :
        Returned(t, {"drop_cursor"}) =>
            IF stmt[thr[t].s].st = "dropped" \/ ~connHeld
            THEN ~thr[t].native /\ ~CursorDropPanics(thr[t].res)
            ELSE thr[t].native /\ ~thr[t].stale

C11_Witness ==
    \E t \in Threads :
        /\ Returned(t, {"drop_cursor"})
        /\ stmt[thr[t].s].st = "held" /\ ~connHeld
        /\ thr[t].res = ConnectionDropped /\ ~thr[t].native

\* a thread is at a native call on the handle of statement thr[t].s
NativeSite(t) == thr[t].pc \in {"call", "exec", "sd_end"}

\* C12: native calls made by different threads on the same Statement never
\* overlap: no two threads are at native calls on the same statement handle
\* at the same time, and so nothing runs between the binding of the
\* parameters of execute_bind and its MimerExecute.
C12_NativeCallsSerialized ==
    \A t, u \in Threads :
        t # u /\ NativeSite(t) /\ NativeSite(u) => thr[t].s # thr[u].s

\* C12, for every operation but get_error: what remains of the property when
\* the native calls of Statement::get_error are left aside
C12_OtherCallsSerialized ==
    \A t, u \in Threads :
        /\ t # u /\ NativeSite(t) /\ NativeSite(u)
        /\ thr[t].op \notin ErrorOps /\ thr[u].op \notin ErrorOps
        => thr[t].s # thr[u].s

\* execute_bind has bound its parameters and is about to execute, after
\* another thread has completed a native call on the same Statement
C12_Witness ==
    \E t, u \in Threads :
        /\ t # u
        /\ thr[t].pc = "exec" /\ thr[t].native
        /\ Returned(u, {"bind", "execute"}) /\ thr[u].native
        /\ thr[u].s = thr[t].s

\* thread t holds none of the guards
HoldsNoGuard(t) ==
    /\ \A s \in Stmts : stmt[s].lock # t
    /\ sessLock # t /\ regLock # t /\ cdLock # t

\* C13: every native call that takes a statement or session handle,
\* including the MimerGetError8 calls of Statement::get_error and
\* Connection::get_error, is made while the calling thread holds the guard
\* of that handle, and a thread that has left its operation (by return or by
\* panic) holds no guard.
C13_NativeCallsUnderGuard ==
    \A t \in Threads :
        /\ NativeSite(t) => stmt[thr[t].s].lock = t
        /\ thr[t].pc = "sess_call" => sessLock = t
        /\ ~InFlight(t) => HoldsNoGuard(t)

\* C13, for every operation but get_error
C13_OtherCallsUnderGuard ==
    \A t \in Threads :
        /\ NativeSite(t) /\ thr[t].op \notin ErrorOps => stmt[thr[t].s].lock = t
        /\ thr[t].pc = "sess_call" /\ thr[t].op \notin ErrorOps => sessLock = t
        /\ ~InFlight(t) => HoldsNoGuard(t)

\* thread t is inside a native call on a statement handle, under its guard
InsideGuardedCall(t) == thr[t].pc \in {"call", "exec"} /\ stmt[thr[t].s].lock = t

\* C14: operations on different handles do not block each other.  While a
\* thread is inside a native call on one Statement, another thread can start
\* an operation on any other Statement that the application holds and nobody
\* is using, it can start execute_statement on the Connection if nobody is
\* using the session, and an operation that has started on another handle
\* can always take its next step, up to its return.
C14_OtherHandlesNotBlocked ==
    \A t, u \in Threads :
        t # u /\ InsideGuardedCall(t) =>
            /\ \A s2 \in Stmts :
                 /\ thr[u].pc = "idle" /\ s2 # thr[t].s /\ stmt[s2].st = "held"
                 /\ ~\E v \in Threads : InFlight(v) /\ thr[v].s = s2
                 => ENABLED StartStmtOp(u, s2, "execute")
            /\ thr[u].pc = "idle" /\ connHeld /\ ~SessionInUse
                 => ENABLED StartSessOp(u, "execute_statement")
            /\ thr[u].pc \in {"check", "call", "exec"} /\ thr[u].s # thr[t].s
                 => ENABLED (Check(u) \/ Call(u) \/ Exec(u))
            /\ thr[u].pc = "sess_call" => ENABLED SessCall(u)

\* while one thread is inside MimerExecute on one Statement, another is
\* inside a native call on another Statement
C14_Witness ==
    \E t, u \in Threads :
        /\ t # u /\ InsideGuardedCall(t) /\ InsideGuardedCall(u)
        /\ thr[t].op = "execute" /\ thr[t].pc = "call"
        /\ thr[u].s # thr[t].s

\* thread t is in the block of InnerConnection::open or InnerConnection::drop
\* that makes the native MimerBeginSession8 / MimerEndSessionHard call
InSessionCall(t) == thr[t].pc \in {"open_call", "td_unlock"}

\* C15: at most one thread at a time is inside the native begin-session or
\* end-session call, each of the two is made with the process-wide
\* connect/disconnect lock held, and the lock is held around those two calls
\* only: its holder is at no statement-level native call.
C15_ConnectDisconnectSerialized ==
    /\ \A t, u \in Threads : InSessionCall(t) /\ InSessionCall(u) => t = u
    /\ \A t \in Threads : InSessionCall(t) => cdLock = t
    /\ \A t \in Threads : cdLock = t => InSessionCall(t) /\ ~NativeSite(t)

\* one thread is inside MimerBeginSession8 under the lock while another has
\* finished the teardown loop and waits for the lock to end its session
C15_Witness ==
    \E t, u \in Threads :
        /\ thr[t].pc = "open_call" /\ cdLock = t
        /\ thr[u].pc = "td_end_session"

\* the steps by which thread t continues the operation it is in
Step(t) ==
    \/ Check(t) \/ Call(t) \/ Exec(t)
    \/ SdCheck(t) \/ SdUpgrade(t) \/ SdRemove(t) \/ SdEnd(t)
    \/ TdLoop(t) \/ TdEndStmt(t) \/ TdEndSession(t) \/ TdUnlock(t)
    \/ SessCall(t) \/ OpenCall(t)

\* C16: no thread waits forever on a guard.  Every guard that is held is
\* held by a thread that is inside an operation, and whenever threads are
\* inside operations at least one of them can take its next step: no set of
\* threads waits on each other's guards (statement guard, session guard,
\* registry lock, connect/disconnect lock), and execute_bind and add_batch
\* bind their parameters under the guard they already hold.
C16_NoGuardDeadlock ==
    /\ \A t \in Threads : ~InFlight(t) => HoldsNoGuard(t)
    /\ (\E t \in Threads : InFlight(t)) =>
           \E u \in Threads : InFlight(u) /\ ENABLED Step(u)

\* a thread that tears the Connection down waits for the guard of a
\* statement on which another thread is inside add_batch
C16_Witness ==
    \E t, u \in Threads :
        /\ thr[t].pc = "td_end_stmt" /\ ~ENABLED Step(t)
        /\ thr[u].op = "add_batch" /\ thr[u].pc = "call" /\ thr[u].s = tdCur

\* the calls made so far are n successful add_batch calls and then one
\* successful execute
BatchOf(n) ==
    /\ n >= 1 /\ Len(batch.hist) = n + 1
    /\ \A i \in 1..n : batch.hist[i] = "add_ok"
    /\ batch.hist[n + 1] = "exec_ok"

\* C17: N >= 1 successful add_batch calls on a freshly prepared Statement
\* followed by one execute() submit exactly N parameter rows: MimerAddBatch
\* has been issued exactly N-1 times, the last bound row is not in the batch
\* queue but is submitted as the bound row, and the rows submitted are the
\* N parameter lists in the order given.
C17_BatchSubmitsEachRowOnce ==
    \A n \in 1..MaxCalls :
        BatchOf(n) =>
            /\ Issued(batch.log, "MimerAddBatch") = n - 1
            /\ Issued(batch.log, "MimerExecute") = 1
            /\ Len(batch.submitted) = n
            /\ batch.submitted = batch.given

\* three add_batch calls on a Statement with two parameters, then execute
C17_Witness ==
    /\ BatchOf(3) /\ batch.num_parameters = 2
    /\ Issued(batch.log, "MimerAddBatch") = 2
    /\ Len(batch.submitted) = 3 /\ batch.submitted[1] # batch.submitted[3]

\* the step is a call of add_batch with a parameter list of the wrong length
WrongCountCall ==
    /\ Len(batch'.hist) = Len(batch.hist) + 1
    /\ batch'.last.op = "add_batch"
    /\ Len(batch'.last.params) # batch.num_parameters

\* C18: add_batch with a parameter list whose length differs from the
\* Statement's parameter count returns -26006 and changes nothing: no
\* native call is made (neither MimerAddBatch nor a parameter set call), the
\* bound row and the batch stay as they were, and batch_bool keeps its value.
C18_WrongCountChangesNothing ==
    [][WrongCountCall =>
          /\ batch'.last.res = WrongParameterCount
          /\ batch'.log = batch.log
          /\ batch'.batch_bool = batch.batch_bool
          /\ batch'.row = batch.row /\ batch'.queue = batch.queue]_vars

\* add_batch with too many parameters has been rejected while a row was
\* pending and a row was in the batch
C18_Witness ==
    /\ batch.last.op = "add_batch" /\ batch.last.res = WrongParameterCount
    /\ Len(batch.last.params) > batch.num_parameters
    /\ batch.batch_bool /\ Len(batch.queue) = 1

\* C19: a Transaction dropped without commit or rollback issues one native
\* rollback, which takes effect: the work done inside it is not durable and
\* none of it is pending, no transaction is open on the Connection (nor is
\* one ever open while no Transaction is held), and a following
\* begin_transaction can succeed and is not rejected with -14011.
C19_DropRollsBack ==
    /\ tx.held = 0 => ~tx.open
    /\ tx.last.op = "drop" =>
         /\ tx.log = <<[mode |-> "Rollback", rc |-> MIMER_SUCCESS, effect |-> TRUE]>>
         /\ ~tx.open /\ tx.pending = {}
         /\ tx.inTx \cap tx.durable = {}
         /\ tx.begun < MaxTx =>
              /\ ENABLED (begin_transaction /\ tx'.last.res = MIMER_SUCCESS)
              /\ ~ENABLED (begin_transaction /\ tx'.last.res = TransactionOpen)

\* a Transaction in which two statements were executed has been dropped
C19_Witness ==
    /\ tx.last.op = "drop" /\ Cardinality(tx.inTx) = 2
    /\ tx.durable = {} /\ tx.begun < MaxTx

\* number of MimerEndTransaction calls in the log that ended a transaction
Effective(log) == Cardinality({i \in 1..Len(log) : log[i].effect})

\* C20: for every Transaction at most one native end-transaction call takes
\* effect, and exactly one when it was dropped or its commit() or rollback()
\* succeeded.  After a successful commit() the rollback issued by the drop
\* is rejected (-24101) and changes nothing, so the work of the Transaction
\* is durable and stays so; after a successful rollback() the rollback of
\* the drop is rejected likewise and the work is not durable.
C20_OneEndTakesEffect ==
    /\ [](/\ Effective(tx.log) <= 1
          /\ tx.last.op = "drop" => Effective(tx.log) = 1
          /\ tx.last.op \in {"commit", "rollback"} /\ tx.last.res = MIMER_SUCCESS =>
               /\ Len(tx.log) = 2 /\ tx.log[1].effect
               /\ tx.log[2] = [mode |-> "Rollback", rc |-> NativeError, effect |-> FALSE]
               /\ tx.last.op = "commit" =>
                    tx.log[1].mode = "Commit" /\ tx.inTx \subseteq tx.durable
               /\ tx.last.op = "rollback" => tx.inTx \cap tx.durable = {})
    /\ [][tx.durable \subseteq tx'.durable]_vars

\* commit() has succeeded on a Transaction with work in it, after an earlier
\* Transaction was rolled back
C20_Witness ==
    /\ tx.last.op = "commit" /\ tx.last.res = MIMER_SUCCESS
    /\ tx.inTx # {} /\ tx.inTx \subseteq tx.durable
    /\ tx.begun = 2 /\ Len(tx.log) = 2

\* the step is a begin_transaction made while a Transaction is held
NestedBegin ==
    /\ tx'.begun = tx.begun + 1
    /\ tx.held > 0

\* C21: at most one Transaction is open on a Connection.  A
\* begin_transaction made while a Transaction is held fails with -14011,
\* creates no Transaction, and leaves the first one as it was: its native
\* transaction open with the same pending work, and its commit possible.
C21_OneTransactionAtATime ==
    /\ [](tx.held <= 1 /\ (tx.held = 1 => tx.open))
    /\ [][NestedBegin =>
            /\ tx'.last = [op |-> "begin_transaction", res |-> TransactionOpen]
            /\ tx'.held = tx.held /\ tx'.open
            /\ tx'.pending = tx.pending /\ tx'.durable = tx.durable
            /\ tx'.inTx = tx.inTx /\ tx'.log = tx.log]_vars
    /\ [](tx.last.res = TransactionOpen =>
            ENABLED (commit /\ tx'.last.res = MIMER_SUCCESS /\ tx'.durable = tx.durable \cup tx.pending))

\* a begin_transaction has been rejected while the open Transaction had
\* work pending
C21_Witness ==
    /\ tx.last = [op |-> "begin_transaction", res |-> TransactionOpen]
    /\ tx.held = 1 /\ tx.open /\ tx.pending # {}

\* ---------------------------------------------------------------------------
\* Cursor: fetching and scrolling (cursor.rs)
\* ---------------------------------------------------------------------------

ScrollOptions == {"NEXT", "PREVIOUS", "RELATIVE", "ABSOLUTE", "FIRST", "LAST"}
Offsets == (0 - 3)..(MaxRows + 1)
\* what keeps a fetch from being answered by the result set: nothing
\* (MIMER_SUCCESS), a status of the native call, or a parent found dropped
\* before the native call is made
ParentDropped == {StatementDropped, ConnectionDropped}
FetchFaults == {MIMER_SUCCESS, NativeError, PositiveStatus} \cup ParentDropped

\* ScrollOption::to_c_int: the native directive a ScrollOption stands for.
to_c_int_reversed(option) ==
    CASE option = "NEXT" -> "MIMER_PREVIOUS"
      [] option = "PREVIOUS" -> "MIMER_NEXT"
      [] option = "RELATIVE" -> "MIMER_RELATIVE"
      [] option = "ABSOLUTE" -> "MIMER_ABSOLUTE"
      [] option = "FIRST" -> "MIMER_FIRST"
      [] option = "LAST" -> "MIMER_LAST"
to_c_int(option) ==
    CASE option = "NEXT" -> "MIMER_NEXT"
      [] option = "PREVIOUS" -> "MIMER_PREVIOUS"
      [] option = "RELATIVE" -> "MIMER_RELATIVE"
      [] option = "ABSOLUTE" -> "MIMER_ABSOLUTE"
      [] option = "FIRST" -> "MIMER_FIRST"
      [] option = "LAST" -> "MIMER_LAST"

\* The row a native directive asks for, counted from the native position.
Target(pos, rows, directive, idx) ==
    CASE directive = "MIMER_NEXT" -> pos + 1
      [] directive = "MIMER_PREVIOUS" -> pos - 1
      [] directive = "MIMER_RELATIVE" -> pos + idx
      [] directive = "MIMER_ABSOLUTE" -> idx
      [] directive = "MIMER_FIRST" -> 1
      [] directive = "MIMER_LAST" -> rows

\* The native cursor moves to the row asked for and answers MIMER_SUCCESS, or
\* stops before the first or after the last row and answers MIMER_NO_DATA.
Move(rows, target) ==
    IF target \in 1..rows THEN [pos |-> target, status |-> MIMER_SUCCESS]
    ELSE IF target < 1 THEN [pos |-> 0, status |-> MIMER_NO_DATA]
    ELSE [pos |-> rows + 1, status |-> MIMER_NO_DATA]

\* MimerFetch: the next row of the result set.
MimerFetch(c) == Move(c.rows, c.pos + 1)

\* MimerFetchScroll: on a scrollable cursor the row the directive asks for; on
\* a forward-only cursor ABSOLUTE and RELATIVE are refused with -24101 and the
\* cursor stays where it is, the other directives are refused or served
\* (`strict`).
MimerFetchScroll(c, directive, idx, strict) ==
    IF c.mode = "Forward" /\ (strict \/ directive \in {"MIMER_ABSOLUTE", "MIMER_RELATIVE"})
    THEN [pos |-> c.pos, status |-> NativeError]
    ELSE Move(c.rows, Target(c.pos, c.rows, directive, idx))

\* A native fetch that fails otherwise (fault # MIMER_SUCCESS) answers the
\* fault and leaves the native cursor where it is.
Native(c, fn, directive, idx, strict, fault) ==
    IF fault # MIMER_SUCCESS THEN [pos |-> c.pos, status |-> fault]
    ELSE IF fn = "MimerFetch" THEN MimerFetch(c)
    ELSE MimerFetchScroll(c, directive, idx, strict)

\* match code.try_into() of scroll and advance: MIMER_SUCCESS makes a Row,
\* MIMER_NO_DATA clears it, every other status is returned as the error.
classify_no_data_err(code) ==
    IF code = MIMER_SUCCESS THEN "some" ELSE "err"
classify(code) ==
    IF code = MIMER_SUCCESS THEN "some"
    ELSE IF code = MIMER_NO_DATA THEN "none"
    ELSE "err"

\* The native function Cursor::scroll calls.
scroll_native_by_mode(mode) ==
    IF mode = "Scrollable" THEN "MimerFetchScroll" ELSE "MimerFetch"
scroll_native(mode) == "MimerFetchScroll"

\* The native function advance calls.
advance_native_scroll(mode) == "MimerFetchScroll"
advance_native(mode) ==
    IF mode = "Scrollable" THEN "MimerFetchScroll" ELSE "MimerFetch"

\* faulty variant: a fetch that fails clears the current row
row_after_err_cleared(row) == FALSE

\* self.row on the paths of scroll and advance that return Err: the `?` of
\* upgrade, get_statement_handle and check_connection, and `_ => Err(code)`.
row_after_err(row) == row

\* The Cursor after a native fetch answered nat: self.row is set by the
\* match and untouched on the error branch.
Fetched(c, op, idx, fn, fault, nat) ==
    [c EXCEPT !.pos = nat.pos,
              !.row = CASE classify(nat.status) = "some" -> TRUE
                        [] classify(nat.status) = "none" -> FALSE
                        [] OTHER -> row_after_err(@),
              !.last = [op |-> op, idx |-> idx,
                        native |-> IF fault \in ParentDropped THEN "none" ELSE fn,
                        fault |-> fault # MIMER_SUCCESS,
                        status |-> nat.status, res |-> classify(nat.status)]]

\* Cursor::set_scroll_option: an assignment.
set_scroll_option(option) ==
    /\ cursor' = [cursor EXCEPT !.scroll_option = option,
                                !.last = [op |-> "set_scroll_option", idx |-> 0,
                                          native |-> "none", fault |-> FALSE,
                                          status |-> MIMER_SUCCESS, res |-> "ok"]]
    /\ UNCHANGED <<mainVars, batch, tx, fetched, report, answer, opening, lob>>

\* Cursor::scroll(idx).
scroll(idx) ==
    /\ \E strict \in BOOLEAN, fault \in FetchFaults :
         LET fn == scroll_native(cursor.mode)
         IN cursor' = Fetched(cursor, "scroll", idx, fn, fault,
                              Native(cursor, fn, to_c_int(cursor.scroll_option),
                                     idx, strict, fault))
    /\ UNCHANGED <<mainVars, batch, tx, fetched, report, answer, opening, lob>>

\* faulty variant: advance scrolls by the directive set_scroll_option stored
advance_directive_stored(option) == to_c_int(option)

\* The directive advance passes to MimerFetchScroll on a scrollable cursor.
advance_directive(option) == "MIMER_NEXT"

\* FallibleStreamingIterator::advance (next, next_row).
advance ==
    /\ \E strict \in BOOLEAN, fault \in FetchFaults :
         LET fn == advance_native(cursor.mode)
         IN cursor' = Fetched(cursor, "advance", 0, fn, fault,
                              Native(cursor, fn, advance_directive(cursor.scroll_option),
                                     0, strict, fault))
    /\ UNCHANGED <<mainVars, batch, tx, fetched, report, answer, opening, lob>>

CursorInit ==
    /\ InitWith(TRUE, {})
    /\ batch = FreshStatement(0)
    /\ tx = NoTransaction
    /\ \E mode \in {"Forward", "Scrollable"}, n \in 0..MaxRows :
         cursor = OpenedCursor(mode, n)
    /\ fetched = FetchedColumn("small_int", FALSE, 0)
    /\ report = NoReport("Connection")
    /\ answer = NoAnswer
    /\ opening = NotOpening
    /\ lob = NoLob

CursorNext ==
    \/ \E option \in ScrollOptions : set_scroll_option(option)
    \/ \E idx \in Offsets : scroll(idx)
    \/ advance

CursorSpec == CursorInit /\ [][CursorNext]_vars

\* ---------------------------------------------------------------------------
\* Claims on Cursor
\* ---------------------------------------------------------------------------

\* The step is a call of `op` on the Cursor whose native fetch was answered
\* by the result set itself.
FetchStep(op) ==
    /\ cursor' # cursor
    /\ cursor'.last.op = op
    /\ ~cursor'.last.fault

\* C22: on a forward-only Cursor every advance made once the last row has been
\* returned (or on an empty result set) yields Ok(None) without an error,
\* leaves the current row None and leaves the Cursor exhausted, so the same
\* holds for each repetition.
C22_ExhaustedCursorYieldsNone ==
    /\ [][(/\ cursor.mode = "Forward"
           /\ cursor.pos >= cursor.rows
           /\ cursor'.last.op = "advance"
           /\ ~cursor'.last.fault)
          => (/\ cursor'.last.res = "none"
              /\ cursor'.row = FALSE
              /\ cursor'.pos = cursor.rows + 1)]_vars
    /\ [](cursor.mode = "Forward" /\ cursor.pos = cursor.rows + 1
          => ENABLED (advance /\ cursor'.last.res = "none" /\ ~cursor'.row))

C22_Witness ==
    /\ cursor.mode = "Forward"
    /\ cursor.rows = 2
    /\ cursor.pos = cursor.rows + 1
    /\ cursor.last.op = "advance"
    /\ cursor.last.res = "none"
    /\ cursor.row = FALSE

\* C23: scroll and advance classify the native fetch status three ways:
\* no-data gives Ok(None), a negative status gives Err(status), and every
\* other status (zero or another positive value) makes a new Row and gives
\* Ok(Some(row)).
C23_FetchStatusThreeWays ==
    [][cursor' # cursor /\ cursor'.last.op \in {"scroll", "advance"}
       => LET status == cursor'.last.status
          IN IF status = MIMER_NO_DATA
             THEN cursor'.last.res = "none" /\ ~cursor'.row
             ELSE IF status < 0
             THEN cursor'.last.res = "err"
             ELSE cursor'.last.res = "some" /\ cursor'.row]_vars

\* set_scroll_option(option) followed by scroll(idx), answered by the result
\* set itself.
Scrolled(c, option, idx) ==
    LET d == [c EXCEPT !.scroll_option = option]
        fn == scroll_native(d.mode)
    IN Fetched(d, "scroll", idx, fn, MIMER_SUCCESS,
               Native(d, fn, to_c_int(d.scroll_option), idx, FALSE, MIMER_SUCCESS))

\* The row numbers the Cursor shows after each call of a script of scrolls
\* (0 where it shows none).
RECURSIVE Visits(_, _)
Visits(c, script) ==
    IF script = <<>> THEN <<>>
    ELSE LET d == Scrolled(c, Head(script).option, Head(script).idx)
         IN <<IF d.row THEN d.pos ELSE 0>> \o Visits(d, Tail(script))

\* The scrolls of test_scrolloption, with the offsets given to LAST,
\* PREVIOUS, FIRST and NEXT left open.
ScrollScript(a, b, c, d) ==
    << [option |-> "LAST", idx |-> a], [option |-> "PREVIOUS", idx |-> b],
       [option |-> "FIRST", idx |-> c], [option |-> "NEXT", idx |-> d],
       [option |-> "RELATIVE", idx |-> 2], [option |-> "RELATIVE", idx |-> 0 - 3],
       [option |-> "ABSOLUTE", idx |-> 5] >>

\* C24: on a scrollable Cursor newly opened over five rows 1..5 the scrolls
\* LAST, PREVIOUS, FIRST, NEXT, RELATIVE(+2), RELATIVE(-3) show rows 5, 4, 1,
\* 2, 4, 1 and ABSOLUTE(5) shows row 5, whatever offsets are passed with
\* FIRST, LAST, NEXT and PREVIOUS; in every state of a scrollable Cursor the
\* offset passed with those four options makes no difference.
C24_ScrollOptionsVisitRows ==
    /\ (cursor.mode = "Scrollable" /\ cursor.rows = 5 /\ cursor.last.op = "open")
         => \A a, b, c, d \in Offsets :
              Visits(cursor, ScrollScript(a, b, c, d)) = <<5, 4, 1, 2, 4, 1, 5>>
    /\ cursor.mode = "Scrollable"
         => \A option \in {"FIRST", "LAST", "NEXT", "PREVIOUS"}, idx \in Offsets :
              /\ Scrolled(cursor, option, idx).pos = Scrolled(cursor, option, 0).pos
              /\ Scrolled(cursor, option, idx).row = Scrolled(cursor, option, 0).row

C24_Witness ==
    /\ cursor.mode = "Scrollable"
    /\ cursor.rows = 5
    /\ cursor.scroll_option = "RELATIVE"
    /\ cursor.last.op = "scroll"
    /\ cursor.last.idx = 0 - 3
    /\ cursor.last.res = "some"
    /\ cursor.row
    /\ cursor.pos = 1

\* C25: on a forward-only Cursor set_scroll_option never fails and moves
\* nothing; a scroll made with ABSOLUTE or RELATIVE selected returns -24101
\* and leaves the cursor and its current row as they were; the advance that
\* follows the refused scroll returns the first row not yet fetched.
C25_ForwardOnlyScrollRefused ==
    [][cursor.mode = "Forward" =>
         /\ (cursor' # cursor /\ cursor'.last.op = "set_scroll_option")
              => (/\ cursor'.last.res = "ok"
                  /\ cursor'.pos = cursor.pos
                  /\ cursor'.row = cursor.row)
         /\ (FetchStep("scroll") /\ cursor.scroll_option \in {"ABSOLUTE", "RELATIVE"})
              => (/\ cursor'.last.res = "err"
                  /\ cursor'.last.status = NativeError
                  /\ cursor'.pos = cursor.pos
                  /\ cursor'.row = cursor.row)
         /\ (/\ FetchStep("advance")
             /\ cursor.last.op = "scroll"
             /\ cursor.last.status = NativeError
             /\ cursor.pos < cursor.rows)
              => (/\ cursor'.last.res = "some"
                  /\ cursor'.row
                  /\ cursor'.pos = cursor.pos + 1)]_vars

C25_Witness ==
    /\ cursor.mode = "Forward"
    /\ cursor.rows >= 2
    /\ cursor.scroll_option = "ABSOLUTE"
    /\ cursor.last.op = "scroll"
    /\ ~cursor.last.fault
    /\ cursor.last.status = NativeError
    /\ cursor.row
    /\ cursor.pos = 1

\* ---------------------------------------------------------------------------
\* Row: reading a column (row.rs, types.rs)
\* ---------------------------------------------------------------------------

ColumnKinds == {"small_int", "big_int", "real", "double", "boolean", "string", "binary"}
HostTypes == {"i32", "i64", "f32", "f64", "bool", "String", "Vec<u8>"}
ColumnValues == {0, 1}

\* The status of the native getter of a column: MIMER_SQL_NULL_VALUE for SQL
\* NULL, the failure when the call fails, otherwise the value for
\* MimerGetBoolean, the size for the string and binary getters, and zero for
\* the numeric getters.
GetterStatus(c, fault) ==
    IF fault # MIMER_SUCCESS THEN fault
    ELSE IF c.null THEN MIMER_SQL_NULL_VALUE
    ELSE IF c.kind = "boolean" THEN c.value
    ELSE IF c.kind \in {"string", "binary"} THEN 2 + 2 * c.value
    ELSE MIMER_SUCCESS

TypedOk(tag, c) == [ok |-> TRUE, tag |-> tag, value |-> c.value, err |-> MIMER_SUCCESS]
NullOk == [ok |-> TRUE, tag |-> "Null", value |-> 0, err |-> MIMER_SUCCESS]
TypeErr(code) == [ok |-> FALSE, tag |-> "none", value |-> 0, err |-> code]

\* The match of a numeric getter's status in get_type.
numeric_status(tag, c, status) ==
    IF status = MIMER_SUCCESS THEN TypedOk(tag, c)
    ELSE IF status = MIMER_SQL_NULL_VALUE THEN NullOk
    ELSE TypeErr(status)

\* The string branch of get_type after the size call answered `size`: the
\* buffer is size + 1 long, and the status rc of the call that fills it
\* gives the String when rc + 1 is that length, Null for the null status,
\* and otherwise Err of the buffer length.
string_filled(c, size, rc) ==
    IF rc + 1 = size + 1 THEN TypedOk("String", c)
    ELSE IF rc = MIMER_SQL_NULL_VALUE THEN NullOk
    ELSE TypeErr(size + 1)

\* Row::get_type: the typed getter chosen by the column type, and the
\* MimerDatatype or error made of its status.  fill is the failure, if any,
\* of the second MimerGetString8 call of a string column.
get_type(c, fault, fill) ==
    LET status == GetterStatus(c, fault)
    IN CASE c.kind = "big_int" -> numeric_status("BigInt", c, status)
         [] c.kind = "small_int" -> numeric_status("Int", c, status)
         [] c.kind = "real" -> numeric_status("Real", c, status)
         [] c.kind = "double" -> numeric_status("Double", c, status)
         [] c.kind = "boolean" ->
              IF status \in {0, 1} THEN TypedOk("Bool", c)
              ELSE IF status = MIMER_SQL_NULL_VALUE THEN NullOk
              ELSE TypeErr(status)
         [] c.kind = "string" ->
              IF status < 0 THEN TypeErr(status)
              ELSE string_filled(c, status, IF fill # MIMER_SUCCESS THEN fill ELSE status)
         [] c.kind = "binary" ->
              IF status < 0 THEN TypeErr(status) ELSE TypedOk("BinaryArray", c)

\* FromSql::from_sql of host type T: the MimerDatatype variants T is made
\* from; every other variant, MimerDatatype::Null included, is -26200.
from_sql(T, val) ==
    \/ T = "i32" /\ val.tag = "Int"
    \/ T = "i64" /\ val.tag = "BigInt"
    \/ T = "String" /\ val.tag = "String"
    \/ T = "f32" /\ val.tag = "Real"
    \/ T = "f32" /\ val.tag = "BinaryArray" /\ 2 + 2 * val.value = 4
    \/ T = "f64" /\ val.tag = "Double"
    \/ T = "bool" /\ val.tag = "Bool"
    \/ T = "Vec<u8>" /\ val.tag = "BinaryArray"

\* Row::get::<T>.
get_result(T, c, fault, fill) ==
    LET val == get_type(c, fault, fill)
    IN IF val.ok
       THEN IF from_sql(T, val)
            THEN [op |-> "get", T |-> T, res |-> "some", code |-> MIMER_SUCCESS,
                  value |-> val.value]
            ELSE [op |-> "get", T |-> T, res |-> "err", code |-> ConversionError,
                  value |-> 0]
       ELSE IF val.err = MIMER_SQL_NULL_VALUE
            THEN [op |-> "get", T |-> T, res |-> "none", code |-> MIMER_SUCCESS,
                  value |-> 0]
            ELSE [op |-> "get", T |-> T, res |-> "err", code |-> val.err, value |-> 0]

\* faulty variant: the Row keeps the values of the row it was produced at
row_column_snapshot(c) == [c EXCEPT !.null = c.seen.null, !.value = c.seen.value]

\* The column a Row reads: a Row holds only the Weak<InnerStatement>, and its
\* getters pass the statement handle to the native layer, which answers for
\* the row the cursor is at.
row_column(c) == c

get(T) ==
    /\ \E fault \in {MIMER_SUCCESS, NativeError}, fill \in {MIMER_SUCCESS, NativeError} :
         fetched' = [fetched EXCEPT
                       !.last = get_result(T, row_column(fetched), fault, fill)]
    /\ UNCHANGED <<mainVars, batch, tx, cursor, report, answer, opening, lob>>

\* Row::is_null: MimerIsNull answers a positive status for SQL NULL and zero
\* otherwise.
is_null ==
    /\ \E fault \in {MIMER_SUCCESS, NativeError} :
         LET rc == IF fault # MIMER_SUCCESS THEN fault
                   ELSE IF row_column(fetched).null THEN 1 ELSE 0
         IN fetched' = [fetched EXCEPT !.last =
                [op |-> "is_null", T |-> "none",
                 res |-> IF rc > 0 THEN "true" ELSE IF rc = 0 THEN "false" ELSE "err",
                 code |-> IF rc < 0 THEN rc ELSE MIMER_SUCCESS,
                 value |-> 0]]
    /\ UNCHANGED <<mainVars, batch, tx, cursor, report, answer, opening, lob>>

\* The Cursor moves to a row whose column holds another value; the
\* application goes on with the new Row, or with the Row (or the clone of
\* it) that it was given before.
next_row ==
    /\ \E null \in BOOLEAN, value \in ColumnValues, keeps \in BOOLEAN :
         /\ (null => value = 0)
         /\ fetched' = [FetchedColumn(fetched.kind, null, value)
                          EXCEPT !.seen = IF keeps THEN fetched.seen ELSE @]
    /\ UNCHANGED <<mainVars, batch, tx, cursor, report, answer, opening, lob>>

RowInit ==
    /\ InitWith(TRUE, {})
    /\ batch = FreshStatement(0)
    /\ tx = NoTransaction
    /\ cursor = OpenedCursor("Forward", 0)
    /\ \E kind \in ColumnKinds : fetched = FetchedColumn(kind, TRUE, 0)
    /\ report = NoReport("Connection")
    /\ answer = NoAnswer
    /\ opening = NotOpening
    /\ lob = NoLob

RowNext ==
    \/ \E T \in HostTypes : get(T)
    \/ is_null
    \/ next_row

RowSpec == RowInit /\ [][RowNext]_vars

\* C26: whenever the column holds SQL NULL, a completed Row::is_null has
\* returned Ok(true) and a completed Row::get::<T> has returned Ok(None), for
\* every host type T among i32, i64, f32, f64, bool, String and Vec<u8>.
C26_NullReadsAsNone ==
    (fetched.null /\ fetched.last.code # NativeError) =>
        /\ fetched.last.op = "is_null" => fetched.last.res = "true"
        /\ fetched.last.op = "get" => fetched.last.res = "none"

\* ---------------------------------------------------------------------------
\* MimerError: describing a status code (mimer_error.rs)
\* ---------------------------------------------------------------------------

\* The codes get_error is asked about: the two ends of the driver's own
\* range (the upper end holds every code the table names but -26999), a code
\* on either side of the range, and two codes of the database.
ErrorCodes ==
    ((LocalFirst - 1)..(LocalFirst + 2)) \cup ((LocalLast - MaxLocal)..(LocalLast + 1))
        \cup {NativeError, TransactionOpen}

\* MimerError::mimer_error_from_code: the fixed table of messages.
mimer_error_from_code(ec) ==
    [error_code |-> ec,
     error_message |->
        CASE ec = -14006 -> "Login failure"
          [] ec = -18500 -> "Database name not found in SQLHOSTS file"
          [] ec = -24101 -> "An illegal sequence of API calls was detected"
          [] ec = -21028 -> "Failed to do a LOCAL connection to the server for database <%>"
          [] ec = -26001 -> "Error converting from utf-8 vector of bytes to String"
          [] ec = -26002 -> "Invalid session pointer was returned from C API"
          [] ec = -26003 -> "Connection is dropped"
          [] ec = -26004 -> "Statement is dropped"
          [] ec = -26005 -> "Handle is NULL"
          [] ec = -26006 -> "Wrong number of parameters"
          [] ec = -26007 -> "Could not convert UTF-8 string to CString"
          [] ec = -26100 -> "Failed to get handle, handle is not a connection or statement"
          [] ec = -26200 -> "Unsupported type conversion between MimerDatatype and Rust type"
          [] ec = -26201 -> "Unsupported type in Row::get_type()"
          [] ec = -26203 -> "Invalid parameter type for MimerDatatype-variant"
          [] ec = -26999 -> "Rust error"
          [] OTHER -> "Unknown error"]

\* The first test of MimerError::new: is the code one of the driver's own?
is_local_never(error_code) == FALSE
is_local(error_code) == LocalFirst <= error_code /\ error_code <= LocalLast

\* faulty variant: the handle of a Statement is handed out unchecked
get_handle_unchecked(h) == MIMER_SUCCESS

\* GetHandle::get_handle: a Statement takes its handle guard and then
\* answers check_connection()?; a Connection hands out its session handle.
get_handle(h) ==
    IF h.kind = "Statement" /\ ~h.alive THEN ConnectionDropped ELSE MIMER_SUCCESS

\* A MimerError together with the guard acquisitions and native calls that
\* making it took.
Described(err, guards, native) ==
    [op |-> "get_error", given |-> 0, error_code |-> err.error_code,
     error_message |-> err.error_message, guards |-> guards, native |-> native]

\* MimerError::new(handle, error_code).  `outcome` is what the native layer
\* does with the two MimerGetError8 calls and `ec` the code it reports.
MimerError_new(h, error_code, outcome, ec) ==
    IF is_local(error_code)
    THEN Described(mimer_error_from_code(error_code), 0, 0)
    ELSE IF get_handle(h) # MIMER_SUCCESS
    THEN Described(mimer_error_from_code(get_handle(h)), 1, 0)
    ELSE IF outcome = "size_fails"
    THEN Described(mimer_error_from_code(NativeError), 1, 1)
    ELSE IF outcome = "fill_fails"
    THEN Described(mimer_error_from_code(NativeError), 1, 2)
    ELSE IF outcome = "not_utf8"
    THEN Described(mimer_error_from_code(-26001), 1, 2)
    ELSE Described([error_code |-> ec, error_message |-> "text of the database"], 1, 2)

\* Connection::get_error and Statement::get_error.
get_error(error_code) ==
    /\ \E outcome \in {"text", "size_fails", "fill_fails", "not_utf8"},
          ec \in {error_code, NativeError} :
         report' = [report EXCEPT !.last =
                      [MimerError_new(report, error_code, outcome, ec)
                         EXCEPT !.given = error_code]]
    /\ UNCHANGED <<mainVars, batch, tx, cursor, fetched, answer, opening, lob>>

\* The Connection a Statement was prepared on is dropped.
connection_dropped ==
    /\ report.kind = "Statement"
    /\ report.alive
    /\ report' = [report EXCEPT !.alive = FALSE]
    /\ UNCHANGED <<mainVars, batch, tx, cursor, fetched, answer, opening, lob>>

ErrorInit ==
    /\ InitWith(TRUE, {})
    /\ batch = FreshStatement(0)
    /\ tx = NoTransaction
    /\ cursor = OpenedCursor("Forward", 0)
    /\ fetched = FetchedColumn("small_int", FALSE, 0)
    /\ answer = NoAnswer
    /\ opening = NotOpening
    /\ lob = NoLob
    /\ \E kind \in {"Connection", "Statement"} : report = NoReport(kind)

ErrorNext ==
    \/ \E error_code \in ErrorCodes : get_error(error_code)
    \/ connection_dropped

ErrorSpec == ErrorInit /\ [][ErrorNext]_vars

\* the codes of the driver's own range that the table names
NamedLocalCodes ==
    {-26001, -26002, -26003, -26004, -26005, -26006, -26007, -26100, -26200,
     -26201, -26203, -26999}

\* C27: for every code from -26999 to -26000, get_error on a Connection or a
\* Statement returns a descriptor carrying that code and the message of the
\* fixed table ('Unknown error' where the table has none), having acquired no
\* guard and made no native call.
C27_LocalCodesDescribedLocally ==
    (/\ report.last.op = "get_error"
     /\ LocalFirst <= report.last.given
     /\ report.last.given <= LocalLast)
    => /\ report.last.guards = 0
       /\ report.last.native = 0
       /\ report.last.error_code = report.last.given
       /\ report.last.error_message # "text of the database"
       /\ report.last.given \notin NamedLocalCodes
            => report.last.error_message = "Unknown error"
       /\ report.last.given \in NamedLocalCodes
            => report.last.error_message # "Unknown error"
       /\ report.last.given = ConnectionDropped
            => report.last.error_message = "Connection is dropped"

C27_Witness ==
    /\ report.kind = "Statement"
    /\ ~report.alive
    /\ report.last.op = "get_error"
    /\ report.last.given = StatementDropped
    /\ report.last.error_message = "Statement is dropped"
    /\ report.last.guards = 0

\* ---------------------------------------------------------------------------
\* The status of native calls that never answer a positive value
\* ---------------------------------------------------------------------------

\* the native calls whose callers take a positive status for impossible
NeverPositive ==
    {"MimerBeginSession8", "MimerExecuteStatement8", "MimerBeginStatement8",
     "MimerOpenCursor", "MimerCloseCursor", "MimerBeginTransaction",
     "MimerEndTransaction"}

\* the statuses a native call is made to answer
Statuses == {NativeError, TransactionOpen} \cup (0..MaxStatus)

Answered(call, rc, res) ==
    [call |-> call, rc |-> rc, res |-> res, code |-> IF res = "panic" THEN 0 ELSE rc]

\* match rc.cmp(MIMER_SUCCESS) with a panic in the Greater arm.
greater_is_ok(call, rc) ==
    Answered(call, rc, IF rc < MIMER_SUCCESS THEN "err" ELSE "ok")
greater_panics(call, rc) ==
    Answered(call, rc, IF rc < MIMER_SUCCESS THEN "err"
                       ELSE IF rc = MIMER_SUCCESS THEN "ok"
                       ELSE "panic")

\* What the calling method makes of the status of each native call.
status_match(call, rc) ==
    CASE call = "MimerBeginSession8" -> greater_panics(call, rc)
      [] call = "MimerExecuteStatement8" -> greater_panics(call, rc)
      [] call = "MimerBeginStatement8" -> greater_panics(call, rc)
      [] call = "MimerOpenCursor" -> greater_panics(call, rc)
      [] call = "MimerCloseCursor" -> greater_panics(call, rc)
      [] call = "MimerBeginTransaction" -> greater_panics(call, rc)
      [] call = "MimerEndTransaction" -> greater_panics(call, rc)
      [] call = "MimerExecute" ->
           Answered(call, rc, IF rc < MIMER_SUCCESS THEN "err" ELSE "ok")

\* A native call returns rc to the method that made it.
native_return(call, rc) ==
    /\ answer' = status_match(call, rc)
    /\ UNCHANGED <<mainVars, batch, tx, cursor, fetched, report, opening, lob>>

StatusInit ==
    /\ InitWith(TRUE, {})
    /\ batch = FreshStatement(0)
    /\ tx = NoTransaction
    /\ cursor = OpenedCursor("Forward", 0)
    /\ fetched = FetchedColumn("small_int", FALSE, 0)
    /\ report = NoReport("Connection")
    /\ opening = NotOpening
    /\ lob = NoLob
    /\ answer = NoAnswer

StatusNext ==
    \E call \in NeverPositive \cup {"MimerExecute"}, rc \in Statuses :
        native_return(call, rc)

StatusSpec == StatusInit /\ [][StatusNext]_vars

\* C28: for begin session, execute_statement, begin statement, open cursor,
\* close cursor, begin transaction and end transaction, a positive native
\* status makes the calling method panic, a negative status makes it return
\* Err with that status, and zero is success.
C28_PositiveStatusPanics ==
    answer.call \in NeverPositive =>
        /\ answer.rc > 0 => answer.res = "panic"
        /\ answer.rc < 0 => answer.res = "err" /\ answer.code = answer.rc
        /\ answer.rc = 0 => answer.res = "ok"

C28_Witness ==
    /\ answer.call = "MimerEndTransaction"
    /\ answer.rc > 0
    /\ answer.res = "panic"

\* ---------------------------------------------------------------------------
\* Connection::open (connection.rs, inner_connection.rs)
\* ---------------------------------------------------------------------------

\* Connection::open up to the native call: a database name, user or password
\* with an interior NUL is refused with -26999 before the lock is taken;
\* otherwise let _lck = connect_disconnect_mtx.lock().
open_begin ==
    /\ opening.pc = "idle"
    /\ opening.connections < MaxConns
    /\ ~opening.lock
    /\ \E nul \in BOOLEAN :
         opening' = IF nul
                    THEN [opening EXCEPT !.last = [res |-> "err", code |-> RustError]]
                    ELSE [opening EXCEPT !.pc = "locked", !.lock = TRUE,
                                         !.last = [res |-> "none", code |-> MIMER_SUCCESS]]
    /\ UNCHANGED <<mainVars, batch, tx, cursor, fetched, report, answer, lob>>

\* MimerBeginSession8 answers a status and leaves a session handle or null.
MimerBeginSession8 ==
    /\ opening.pc = "locked"
    /\ \E rc \in Statuses, sess \in {"null", "session"} :
         opening' = [opening EXCEPT !.pc = "answered", !.rc = rc, !.sess = sess]
    /\ UNCHANGED <<mainVars, batch, tx, cursor, fetched, report, answer, lob>>

\* match sess.as_mut(): Some(session) makes the InnerConnection.
session_made_always(sess) == TRUE
session_made(sess) == sess # "null"

\* What InnerConnection::open returns for the status and the handle.
open_result(rc, sess) ==
    IF rc > MIMER_SUCCESS THEN [res |-> "panic", code |-> MIMER_SUCCESS]
    ELSE IF rc < MIMER_SUCCESS THEN [res |-> "err", code |-> rc]
    ELSE IF session_made(sess) THEN [res |-> "ok", code |-> MIMER_SUCCESS]
    ELSE [res |-> "err", code |-> InvalidSession]

\* The rest of Connection::open: the match on the status, the match on the
\* handle, the end of the block that holds _lck (by return or by unwinding),
\* and Ok(Connection { .. }) for an InnerConnection.
open_end ==
    /\ opening.pc = "answered"
    /\ LET result == open_result(opening.rc, opening.sess)
       IN opening' = [opening EXCEPT
                        !.pc = "idle", !.lock = FALSE, !.last = result,
                        !.connections = IF result.res = "ok" THEN @ + 1 ELSE @]
    /\ UNCHANGED <<mainVars, batch, tx, cursor, fetched, report, answer, lob>>

\* A Connection is dropped: impl Drop for InnerConnection ends the session
\* under the connect/disconnect lock.
close ==
    /\ opening.pc = "idle"
    /\ opening.connections > 0
    /\ ~opening.lock
    /\ opening' = [opening EXCEPT !.connections = @ - 1,
                                  !.last = [res |-> "none", code |-> MIMER_SUCCESS]]
    /\ UNCHANGED <<mainVars, batch, tx, cursor, fetched, report, answer, lob>>

OpenInit ==
    /\ InitWith(TRUE, {})
    /\ batch = FreshStatement(0)
    /\ tx = NoTransaction
    /\ cursor = OpenedCursor("Forward", 0)
    /\ fetched = FetchedColumn("small_int", FALSE, 0)
    /\ report = NoReport("Connection")
    /\ answer = NoAnswer
    /\ opening = NotOpening
    /\ lob = NoLob

OpenNext == open_begin \/ MimerBeginSession8 \/ open_end \/ close

OpenSpec == OpenInit /\ [][OpenNext]_vars

\* C29: Connection::open makes a Connection only when begin-session answered
\* zero and left a non-null handle; a negative status gives an error with
\* that code, zero with a null handle gives -26002, and after every failure
\* no Connection has been made and the connect/disconnect lock is free.
C29_OpenOutcomes ==
    /\ [][(opening.pc = "answered" /\ opening'.pc = "idle") =>
            /\ (opening'.connections = opening.connections + 1)
                 <=> (opening.rc = 0 /\ opening.sess = "session")
            /\ opening'.connections # opening.connections + 1
                 => opening'.connections = opening.connections
            /\ opening'.last.res = "ok"
                 <=> (opening.rc = 0 /\ opening.sess = "session")
            /\ opening.rc < 0
                 => opening'.last = [res |-> "err", code |-> opening.rc]
            /\ (opening.rc = 0 /\ opening.sess = "null")
                 => opening'.last = [res |-> "err", code |-> InvalidSession]]_vars
    /\ [][opening'.last.res \in {"err", "panic"} =>
            /\ ~opening'.lock
            /\ opening'.connections = opening.connections]_vars
    /\ [](opening.pc = "idle" => ~opening.lock)

C29_Witness ==
    /\ opening.pc = "idle"
    /\ opening.last = [res |-> "err", code |-> InvalidSession]
    /\ opening.rc = 0
    /\ opening.sess = "null"
    /\ ~opening.lock
    /\ opening.connections = 0

\* ---------------------------------------------------------------------------
\* Statement: one batch after another (statement.rs)
\* ---------------------------------------------------------------------------

\* every call made on the Statement so far succeeded
AllSucceeded(hist) == \A i \in 1..Len(hist) : hist[i] \in {"add_ok", "exec_ok"}

\* number of successful executes among the calls
Executes(hist) == Cardinality({i \in 1..Len(hist) : hist[i] = "exec_ok"})

\* C30: a Statement can be used for one batch after another: the first
\* add_batch after an execute() issues no native add-to-batch call before
\* binding, and a second cycle of M add_batch calls and an execute() submits
\* exactly the M rows of that cycle.
C30_NextBatchStartsFresh ==
    /\ [][(/\ AfterExecute(batch.hist)
           /\ batch' # batch
           /\ batch'.last.op = "add_batch"
           /\ batch'.last.res # WrongParameterCount)
          => Issued(batch'.log, "MimerAddBatch") = Issued(batch.log, "MimerAddBatch")]_vars
    /\ [](/\ AllSucceeded(batch.hist)
          /\ AfterExecute(batch.hist)
          /\ Executes(batch.hist) >= 2
          /\ batch.hist[Len(batch.hist) - 1] = "add_ok"
          => batch.submitted = batch.given)

\* the native calls the step added to the log
NewCalls == SubSeq(batch'.log, Len(batch.log) + 1, Len(batch'.log))

\* the step is an add_batch that passed the parameter count check
AddBatchStep ==
    /\ batch' # batch
    /\ batch'.last.op = "add_batch"
    /\ batch'.last.res # WrongParameterCount

\* C31: an add_batch made while a row is pending issues MimerAddBatch for that
\* row as its first native call, before any parameter of the new row is set,
\* and issues it once; and after every add_batch that bound all its
\* parameters the pending flag is true.
C31_AddBatchBeforeBinding ==
    /\ [][(AddBatchStep /\ batch.batch_bool)
          => /\ Len(NewCalls) >= 1
             /\ NewCalls[1] = "MimerAddBatch"
             /\ \A i \in 2..Len(NewCalls) : NewCalls[i] = "MimerSet"]_vars
    /\ [][(AddBatchStep /\ batch'.row = batch'.last.params)
          => batch'.batch_bool]_vars

C31_Witness ==
    /\ batch.num_parameters = 2
    /\ batch.last.op = "add_batch"
    /\ batch.last.res = MIMER_SUCCESS
    /\ batch.row = batch.last.params
    /\ batch.batch_bool
    /\ Len(batch.log) = 5
    /\ batch.log[3] = "MimerAddBatch"
    /\ batch.log[4] = "MimerSet"
    /\ Len(batch.queue) = 1

\* ---------------------------------------------------------------------------
\* Claims on Connection::prepare
\* ---------------------------------------------------------------------------

\* C32: a prepare that fails returns no Statement and leaves the registry of
\* the Connection as it was, and one that finds the InnerConnection gone
\* yields -26003 without calling MimerBeginStatement8; a prepare that
\* succeeds has registered the new statement when it returns the Statement.
C32_PrepareRegistersOnSuccess ==
    /\ [][\A t \in Threads :
            (thr[t].pc = "idle" /\ thr'[t].op = "prepare") =>
                IF thr'[t].res # MIMER_SUCCESS
                THEN registry' = registry /\ stmt' = stmt
                ELSE /\ registry' = registry \cup {thr'[t].s}
                     /\ thr'[t].s \notin registry
                     /\ stmt'[thr'[t].s].st = "held"]_vars
    /\ [](\A t \in Threads :
            (thr[t].op = "prepare" /\ thr[t].pc = "ret" /\ thr[t].res = MIMER_SUCCESS)
                => thr[t].s \in registry)
    /\ [](\A status \in {"success", "begin_error", "count_error"} :
            LET new == InnerStatement_new(0, status)
            IN new.res = ConnectionDropped /\ ~new.native /\ ~new.made)

C32_Witness ==
    \E t \in Threads :
        /\ thr[t].op = "prepare"
        /\ thr[t].pc = "ret"
        /\ thr[t].res = NativeError
        /\ Cardinality(registry) = 1
        /\ stmt[thr[t].s].st = "new"

\* C33: a Row carries no data of its own: a read made through a Row (or its
\* clone) that was produced at an earlier row returns what the column holds
\* in the row the Cursor is at now, value or NULL, not what it held in the
\* row at which the Row was produced.
C33_HeldRowReadsCurrentPosition ==
    fetched.last.code = MIMER_SUCCESS =>
        /\ (fetched.last.op = "get" /\ fetched.last.res = "some")
             => ~fetched.null /\ fetched.last.value = fetched.value
        /\ (fetched.last.op = "get" /\ fetched.last.res = "none") => fetched.null
        /\ fetched.last.op = "is_null"
             => (fetched.last.res = "true") = fetched.null

C33_Witness ==
    /\ fetched.kind = "small_int"
    /\ fetched.seen = [null |-> FALSE, value |-> 0]
    /\ fetched.value = 1
    /\ fetched.last.op = "get"
    /\ fetched.last.res = "some"
    /\ fetched.last.value = 1

\* C34: advance (next, next_row) makes the native fetch of the cursor's mode,
\* MimerFetch on a forward-only Cursor and MimerFetchScroll on a scrollable
\* one, and moves one row forward whatever directive set_scroll_option
\* stored; neither advance nor scroll changes the stored directive, which is
\* NEXT when the Cursor is opened.
C34_AdvanceIgnoresDirective ==
    /\ [][FetchStep("advance") =>
            /\ cursor'.last.native =
                 (IF cursor.mode = "Forward" THEN "MimerFetch" ELSE "MimerFetchScroll")
            /\ cursor'.pos = (IF cursor.pos <= cursor.rows
                              THEN cursor.pos + 1 ELSE cursor.pos)
            /\ cursor'.row = (cursor'.pos \in 1..cursor.rows)]_vars
    /\ [][(cursor' # cursor /\ cursor'.last.op \in {"advance", "scroll"})
            => cursor'.scroll_option = cursor.scroll_option]_vars
    /\ [](cursor.last.op = "open" => cursor.scroll_option = "NEXT")

C34_Witness ==
    /\ cursor.mode = "Scrollable"
    /\ cursor.scroll_option = "PREVIOUS"
    /\ cursor.last.op = "advance"
    /\ cursor.last.native = "MimerFetchScroll"
    /\ cursor.last.res = "some"
    /\ cursor.pos = 3

\* C40: when advance or scroll returns Err, because a parent was dropped or
\* the native fetch answered an error, the Cursor's current row and its
\* stored directive are as they were before the call, so get() still gives
\* the Row of the last successful fetch, or None if the last fetch found no
\* data.
C40_ErrLeavesCursorAsItWas ==
    [][(/\ cursor' # cursor
        /\ cursor'.last.op \in {"advance", "scroll"}
        /\ cursor'.last.res = "err")
       => /\ cursor'.row = cursor.row
          /\ cursor'.scroll_option = cursor.scroll_option
          /\ cursor'.pos = cursor.pos]_vars

C40_Witness ==
    /\ cursor.last.op = "advance"
    /\ cursor.last.res = "err"
    /\ cursor.last.status = ConnectionDropped
    /\ cursor.last.native = "none"
    /\ cursor.row
    /\ cursor.pos = 2

\* C37: get_error called with a code outside the driver's own range on a
\* Statement whose Connection has been dropped makes no native
\* error-description call and returns the descriptor of -26003, 'Connection
\* is dropped'.
C37_GetErrorAfterConnectionDrop ==
    [][(/\ report.kind = "Statement"
        /\ ~report.alive
        /\ report' # report
        /\ report'.last.op = "get_error"
        /\ ~(LocalFirst <= report'.last.given /\ report'.last.given <= LocalLast))
       => /\ report'.last.native = 0
          /\ report'.last.error_code = ConnectionDropped
          /\ report'.last.error_message = "Connection is dropped"]_vars

C37_Witness ==
    /\ report.kind = "Statement"
    /\ ~report.alive
    /\ report.last.op = "get_error"
    /\ report.last.given = NativeError
    /\ report.last.error_code = ConnectionDropped
    /\ report.last.native = 0
    /\ report.last.guards = 1

\* C38: every error value a fallible operation returns is a strictly negative
\* status code; zero and positive values are returned only as success
\* values.
C38_ErrorsAreNegative ==
    fetched.last.res = "err" => fetched.last.code < 0

\* C39: once the session's native handle has been closed, no native statement
\* handle that MimerBeginStatement8 created remains without having been
\* ended; a prepare that fails at the parameter count after the statement
\* was begun included.
C39_BegunStatementsEndedBeforeSession ==
    sessEnded => ~leaked

-----------------------------------------------------------------------------
\* Large objects: Statement::bind_param_auxillary sends a CLOB or BLOB
\* parameter in chunks, and Row::get_type reads a BLOB column in chunks.  The
\* iterations of their loops are the steps of the model.

\* LOB_CHUNK_MAXSIZE_SET, scaled down: the largest chunk of one native call.
\* It is at least the longest UTF-8 character, as it is in the source.
LOB_CHUNK_MAXSIZE_SET == 4

\* The most characters of a string parameter.
MaxChars == 4

\* The most bytes of a binary large object.
MaxLobLen == 9

\* The lengths in bytes of one UTF-8 character.
CharWidths == 1..4

\* The strings of the model: each character is given by its length in bytes.
Strings == UNION {[1..n -> CharWidths] : n \in 0..MaxChars}

RECURSIVE Flatten(_)
\* The concatenation of a sequence of chunks, in order.
Flatten(chunks) ==
    IF chunks = <<>> THEN <<>> ELSE Head(chunks) \o Flatten(Tail(chunks))

\* str::bytes: the UTF-8 encoding of a string; <<c, j>> is byte j of
\* character c.
bytes_of(chars) ==
    Flatten([c \in 1..Len(chars) |-> [j \in 1..chars[c] |-> <<c, j>>]])

\* (byte & 0b1100_0000) == 0b1000_0000: every byte of a UTF-8 character but
\* its first is a continuation byte.
is_continuation(byte) == byte[2] > 1

\* The bytes of a binary value of n bytes, each one different.
Binary(n) == [i \in 1..n |-> i]

\* The n bytes that start at offset p (ptr.add(p), n).
Slice(bytes, p, n) == SubSeq(bytes, p + 1, p + n)

stepback_none(bytes, pos, stepback) == 0

RECURSIVE stepback_from(_, _, _)
\* The inner loop of the CLOB branch: while the byte at the end of a full
\* chunk is a continuation byte, step back one byte.
stepback_from(bytes, pos, stepback) ==
    IF /\ pos + LOB_CHUNK_MAXSIZE_SET - stepback > 0
       /\ is_continuation(bytes[pos + LOB_CHUNK_MAXSIZE_SET - stepback + 1])
    THEN stepback_from(bytes, pos, stepback + 1)
    ELSE stepback

\* The statuses a native large-object call returns in the model.
LobStatuses == {MIMER_SUCCESS, NativeError}

\* A large-object operation that has returned res.
LobDone(l, res) == [l EXCEPT !.pc = "done", !.res = res]

\* An operation op that is about to be called with the argument input.
LobGiven(op, input) == [NoLob EXCEPT !.op = op, !.pc = "given", !.input = input]

\* The start of the operation on the bytes value.
LobBegun(l, value) == [l EXCEPT !.value = value]

\* bind_param_auxillary, StringRef on a CLOB parameter: MimerSetLob, then the
\* whole value in one MimerSetNclobData8 call when it fits a chunk, else the
\* sending loop.
bind_clob ==
    /\ lob.pc = "given" /\ lob.op = "bind_clob"
    /\ \E rc \in LobStatuses, rc2 \in LobStatuses :
         LET value == bytes_of(lob.input)
             size == Len(value)
             l == LobBegun(lob, value)
         IN  lob' = IF rc < 0 THEN LobDone(l, rc)
                    ELSE IF size > LOB_CHUNK_MAXSIZE_SET
                    THEN [l EXCEPT !.pc = "clob_loop", !.lefttosend = size,
                                   !.pos = 0, !.stepback = 0]
                    ELSE IF rc2 < 0 THEN LobDone(l, rc2)
                    ELSE LobDone([l EXCEPT !.sent = <<value>>], rc2)
    /\ UNCHANGED <<mainVars, batch, tx, cursor, fetched, report, answer, opening>>

\* One test of the sending loop of the CLOB branch and, when it passes, one
\* iteration: the rest when it fits a chunk, else a full chunk shortened by
\* the bytes stepped back.
clob_step ==
    /\ lob.pc = "clob_loop"
    /\ \E rc \in LobStatuses :
         lob' = IF ~(lob.lefttosend > 0 /\ lob.stepback < LOB_CHUNK_MAXSIZE_SET)
                THEN LobDone(lob, MIMER_SUCCESS)
                ELSE IF rc < 0 THEN LobDone(lob, rc)
                ELSE IF lob.lefttosend <= LOB_CHUNK_MAXSIZE_SET
                THEN [lob EXCEPT !.sent = Append(@, Slice(lob.value, lob.pos, lob.lefttosend)),
                                 !.stepback = 0,
                                 !.lefttosend = 0]
                ELSE LET stepback == stepback_from(lob.value, lob.pos, 0)
                     IN  [lob EXCEPT
                            !.sent = Append(@, Slice(lob.value, lob.pos,
                                                     LOB_CHUNK_MAXSIZE_SET - stepback)),
                            !.stepback = stepback,
                            !.lefttosend = @ - LOB_CHUNK_MAXSIZE_SET + stepback,
                            !.pos = @ + LOB_CHUNK_MAXSIZE_SET - stepback]
    /\ UNCHANGED <<mainVars, batch, tx, cursor, fetched, report, answer, opening>>

\* bind_param_auxillary, BinaryArrayRef on a BLOB parameter: MimerSetLob, then
\* the whole value in one MimerSetBlobData call when it fits a chunk, else
\* the sending loop.
bind_blob ==
    /\ lob.pc = "given" /\ lob.op = "bind_blob"
    /\ \E rc \in LobStatuses, rc2 \in LobStatuses :
         LET value == Binary(lob.input)
             size == Len(value)
             l == LobBegun(lob, value)
         IN  lob' = IF rc # MIMER_SUCCESS THEN LobDone(l, rc)
                    ELSE IF size > LOB_CHUNK_MAXSIZE_SET
                    THEN [l EXCEPT !.pc = "blob_loop", !.lefttosend = size, !.k = 0]
                    ELSE IF rc2 # MIMER_SUCCESS THEN LobDone(l, rc2)
                    ELSE LobDone([l EXCEPT !.sent = <<value>>], rc2)
    /\ UNCHANGED <<mainVars, batch, tx, cursor, fetched, report, answer, opening>>

\* One test of the sending loop of the BLOB branch and, when it passes, one
\* iteration: chunk _k, which is the rest when that fits a chunk.
blob_step ==
    /\ lob.pc = "blob_loop"
    /\ \E rc \in LobStatuses :
         lob' = IF ~(lob.lefttosend > 0) THEN LobDone(lob, MIMER_SUCCESS)
                ELSE IF rc # MIMER_SUCCESS THEN LobDone(lob, rc)
                ELSE IF lob.lefttosend <= LOB_CHUNK_MAXSIZE_SET
                THEN [lob EXCEPT
                        !.sent = Append(@, Slice(lob.value, lob.k * LOB_CHUNK_MAXSIZE_SET,
                                                 lob.lefttosend)),
                        !.lefttosend = 0]
                ELSE [lob EXCEPT
                        !.sent = Append(@, Slice(lob.value, lob.k * LOB_CHUNK_MAXSIZE_SET,
                                                 LOB_CHUNK_MAXSIZE_SET)),
                        !.lefttosend = @ - LOB_CHUNK_MAXSIZE_SET,
                        !.k = @ + 1]
    /\ UNCHANGED <<mainVars, batch, tx, cursor, fetched, report, answer, opening>>

\* MimerGetBlobData(handle, val.add(idx), n): the chunk is written to the
\* buffer from offset idx on.
written(val, idx, chunk) ==
    [i \in 1..Len(val) |->
        IF i > idx /\ i <= idx + Len(chunk) THEN chunk[i - idx] ELSE val[i]]

\* let blob_idx = 0: the offset of the BLOB branch is never changed.
blob_idx_after(blob_idx, to_recieve) == blob_idx

\* Row::get_type on a BLOB column of blob_len bytes: MimerGetLob, and the
\* buffer resized to blob_len zero bytes.
get_blob ==
    /\ lob.pc = "given" /\ lob.op = "get_blob"
    /\ \E err \in LobStatuses :
         LET blob_len == lob.input
             l == LobBegun(lob, Binary(blob_len))
         IN  lob' = IF err < 0 THEN LobDone(l, err)
                    ELSE [l EXCEPT !.pc = "get_loop", !.left_to_return = blob_len,
                                   !.val = [i \in 1..blob_len |-> 0],
                                   !.blob_idx = 0]
    /\ UNCHANGED <<mainVars, batch, tx, cursor, fetched, report, answer, opening>>

\* One test of the reading loop of the BLOB branch and, when it passes, one
\* iteration.  The native call hands out the bytes that follow those it has
\* handed out before; sent records the chunks read.
get_step ==
    /\ lob.pc = "get_loop"
    /\ \E err \in LobStatuses :
         lob' = IF ~(lob.left_to_return > 0) THEN LobDone(lob, MIMER_SUCCESS)
                ELSE IF err < 0 THEN LobDone([lob EXCEPT !.val = <<>>], err)
                ELSE LET to_recieve ==
                             IF lob.left_to_return < LOB_CHUNK_MAXSIZE_SET
                             THEN lob.left_to_return ELSE LOB_CHUNK_MAXSIZE_SET
                         chunk == Slice(lob.value,
                                        Len(lob.value) - lob.left_to_return, to_recieve)
                     IN  [lob EXCEPT
                            !.sent = Append(@, chunk),
                            !.val = written(@, lob.blob_idx, chunk),
                            !.left_to_return = @ - to_recieve,
                            !.blob_idx = blob_idx_after(@, to_recieve)]
    /\ UNCHANGED <<mainVars, batch, tx, cursor, fetched, report, answer, opening>>

LobInit == InitWith(TRUE, ConcOps) /\ batch = FreshStatement(0) /\ tx = NoTransaction
    /\ cursor = OpenedCursor("Forward", 0)
    /\ fetched = FetchedColumn("small_int", FALSE, 0)
    /\ report = NoReport("Connection")
    /\ answer = NoAnswer
    /\ opening = NotOpening
    /\ lob \in {LobGiven("bind_clob", chars) : chars \in Strings}
               \cup {LobGiven(op, n) : op \in {"bind_blob", "get_blob"}, n \in 0..MaxLobLen}

LobNext ==
    \/ bind_clob
    \/ clob_step
    \/ bind_blob
    \/ blob_step
    \/ get_blob
    \/ get_step

LobSpec == LobInit /\ [][LobNext]_vars

\* C35: a decode of a binary large object that succeeded read chunks of at
\* most the maximum chunk size, and the returned buffer has the declared
\* length and is the concatenation of the chunks in the order they were
\* read; a decode that a chunk read failed returned that error.
C35_BlobDecodedInOrder ==
    lob.op = "get_blob" /\ lob.pc = "done" =>
        IF lob.res = MIMER_SUCCESS
        THEN /\ \A i \in 1..Len(lob.sent) : Len(lob.sent[i]) <= LOB_CHUNK_MAXSIZE_SET
             /\ Len(lob.val) = Len(lob.value)
             /\ lob.val = Flatten(lob.sent)
        ELSE lob.res < 0

\* The chunks sent are consecutive parts of the value that make it up.
SentWhole == Flatten(lob.sent) = lob.value

\* The offsets in the value at which a chunk sent ends.
Boundaries == {Len(Flatten(SubSeq(lob.sent, 1, i))) : i \in 1..Len(lob.sent)}

\* C36: a binary or character large object longer than the maximum chunk size
\* that was bound successfully was sent as chunks of at most the maximum
\* chunk size whose concatenation in order is the value, for character data
\* no chunk ends inside a multi-byte character, and every iteration of a
\* sending loop that is followed by another leaves fewer bytes to send, so
\* the loop terminates.
C36_LobSentInChunks ==
    /\ [](lob.op \in {"bind_clob", "bind_blob"} /\ lob.pc = "done"
            /\ lob.res = MIMER_SUCCESS /\ Len(lob.value) > LOB_CHUNK_MAXSIZE_SET =>
             /\ Len(lob.sent) > 1
             /\ \A i \in 1..Len(lob.sent) : Len(lob.sent[i]) <= LOB_CHUNK_MAXSIZE_SET
             /\ SentWhole
             /\ lob.op = "bind_clob" =>
                  \A b \in Boundaries :
                      b < Len(lob.value) => ~is_continuation(lob.value[b + 1]))
    /\ [][lob.pc \in {"clob_loop", "blob_loop"} /\ lob'.pc = lob.pc =>
             /\ lob'.lefttosend < lob.lefttosend
             /\ lob'.lefttosend >= 0]_vars

\* A string with multi-byte characters was bound in more than two chunks,
\* one of which was shortened by at least two bytes stepped back.
C36_Witness ==
    /\ lob.pc = "done" /\ lob.res = MIMER_SUCCESS
    /\ lob.op = "bind_clob"
    /\ Len(lob.sent) > 2
    /\ \E i \in 1..Len(lob.sent) : Len(lob.sent[i]) < LOB_CHUNK_MAXSIZE_SET - 1
    /\ \E i \in 1..Len(lob.value) : is_continuation(lob.value[i])

====
